---- MODULE Spec2Model ----
(***************************************************************************)
(* Verification model of the Sudoku solving engine: the Board container    *)
(* (core/board.py), the rule oracle (core/rules.py), the domain State      *)
(* (core/state.py), the three backtracking strategies (solvers/*.py) and   *)
(* the Dancing-Links exact-cover solver (solvers/dlx_lib.py,               *)
(* solvers/dlx_solver.py).                                                 *)
(*                                                                         *)
(* Python objects live in a heap: a sequence of Board objects, a reference *)
(* being an index into it (0 is no object).  A method that builds a new    *)
(* Board appends to the heap; a method that mutates its receiver rewrites  *)
(* the receiver's slot.  Exceptions are the `exc' field of a call's        *)
(* outcome ("none" when the call returns normally).                        *)
(*                                                                         *)
(* Grids are sequences of rows, rows are sequences of digits; the code's   *)
(* 0-based index (r, c) is the model's [r + 1][c + 1].                     *)
(***************************************************************************)
EXTENDS Integers, Sequences, FiniteSets, TLC

VARIABLES
    heap,     \* the live Board objects
    b,        \* SpecBoard: reference to the Board under test
    b2,       \* SpecBoard: reference to the Board derived from b (0: none yet)
    ctor,     \* SpecBoard: per live reference, the grid the object was built with
    last,     \* SpecBoard: the last call made, its arguments and its outcome
    ncalls,   \* SpecBoard: number of calls made so far
    puzzle,   \* SpecSolve: the grid the input Board was built from
    ret,      \* SpecSolve: per strategy, the outcome of its call (or "pending")
    dstate,   \* SpecState: the State object (its board reference and its domains)
    matrix    \* SpecDlx: the exact-cover matrix and the position of the search in it

vars == <<heap, b, b2, ctor, last, ncalls, puzzle, ret, dstate, matrix>>

(***************************************************************************)
(* Parameters and bounds                                                   *)
(***************************************************************************)

\* Board._n: the block side the model's boards are built with (4 x 4 grids).
N == 2

\* Board._size
Size == N * N

\* core/types.py: the digit of an empty cell.
EMPTY == 0

\* Bound on the number of calls made on the Boards of SpecBoard.
MaxCalls == 4

\* Bound on the number of cells that may be empty in the puzzles of SpecSolve.
MaxHoles == 6

\* Bound on the number of cells that may be empty in the puzzles of SpecState.
MaxStateHoles == 5

\* Bound on the number of assign calls made on one State.
MaxAssigns == 2

Idx == 0 .. (Size - 1)

(***************************************************************************)
(* core/board.py                                                           *)
(***************************************************************************)

\* Board._validate_shape: "ValueError" unless grid is size rows of size cells.
validate_shape(grid, size) ==
    IF Len(grid) # size THEN "ValueError"
    ELSE IF \E i \in 1 .. Len(grid) : Len(grid[i]) # size THEN "ValueError"
    ELSE "none"

\* Board._validate_values: "ValueError" unless every digit is in [0, size].
validate_values(grid, size) ==
    IF \E i \in 1 .. Len(grid) : \E j \in 1 .. Len(grid[i]) :
            ~(0 <= grid[i][j] /\ grid[i][j] <= size)
    THEN "ValueError"
    ELSE "none"

\* The given mask of Board.__init__: every non-empty cell of the grid.
given_mask(grid) ==
    [i \in 1 .. Len(grid) |-> [j \in 1 .. Len(grid[i]) |-> grid[i][j] # EMPTY]]

\* Board.__init__(grid, n): a new object on the heap, or ValueError.
Board_init(h, grid, n) ==
    IF n < 1 THEN [heap |-> h, ref |-> 0, exc |-> "ValueError"]
    ELSE IF validate_shape(grid, n * n) # "none"
    THEN [heap |-> h, ref |-> 0, exc |-> "ValueError"]
    ELSE IF validate_values(grid, n * n) # "none"
    THEN [heap |-> h, ref |-> 0, exc |-> "ValueError"]
    ELSE [heap |-> Append(h, [n |-> n, size |-> n * n, grid |-> grid,
                             given |-> given_mask(grid)]),
          ref |-> Len(h) + 1,
          exc |-> "none"]

\* Board.size
Board_size(h, ref) == h[ref].size

\* Board._check_bounds
check_bounds(h, ref, r, c) ==
    IF ~(0 <= r /\ r < h[ref].size) \/ ~(0 <= c /\ c < h[ref].size)
    THEN "IndexError"
    ELSE "none"

\* Board._check_digit with the upper limit off by one.
check_digit_off_by_one(h, ref, v) ==
    IF ~(0 <= v /\ v <= h[ref].size + 1) THEN "ValueError" ELSE "none"

\* Board._check_digit
check_digit(h, ref, v) ==
    IF ~(0 <= v /\ v <= h[ref].size) THEN "ValueError" ELSE "none"

\* Board.get
Board_get(h, ref, r, c) ==
    IF check_bounds(h, ref, r, c) # "none"
    THEN [exc |-> "IndexError", val |-> 0]
    ELSE [exc |-> "none", val |-> h[ref].grid[r + 1][c + 1]]

\* Board.set with the given-cell check left out.
Board_set_ignoring_given(h, ref, r, c, v) ==
    IF check_bounds(h, ref, r, c) # "none"
    THEN [heap |-> h, exc |-> "IndexError"]
    ELSE IF check_digit(h, ref, v) # "none"
    THEN [heap |-> h, exc |-> "ValueError"]
    ELSE [heap |-> [h EXCEPT ![ref].grid[r + 1][c + 1] = v], exc |-> "none"]

\* Board.set: mutates the receiver.
Board_set(h, ref, r, c, v) ==
    IF check_bounds(h, ref, r, c) # "none"
    THEN [heap |-> h, exc |-> "IndexError"]
    ELSE IF check_digit(h, ref, v) # "none"
    THEN [heap |-> h, exc |-> "ValueError"]
    ELSE IF h[ref].given[r + 1][c + 1]
    THEN [heap |-> h, exc |-> "PermissionError"]
    ELSE [heap |-> [h EXCEPT ![ref].grid[r + 1][c + 1] = v], exc |-> "none"]

\* Board.to_grid: a fresh copy of the rows.
Board_to_grid(h, ref) == h[ref].grid

\* Board.with_value writing the receiver's own grid and handing the receiver
\* back instead of building a new Board.
Board_with_value_in_place(h, ref, r, c, v) ==
    IF check_bounds(h, ref, r, c) # "none"
    THEN [heap |-> h, ref |-> 0, exc |-> "IndexError"]
    ELSE IF check_digit(h, ref, v) # "none"
    THEN [heap |-> h, ref |-> 0, exc |-> "ValueError"]
    ELSE IF h[ref].given[r + 1][c + 1]
    THEN [heap |-> h, ref |-> 0, exc |-> "PermissionError"]
    ELSE [heap |-> [h EXCEPT ![ref].grid[r + 1][c + 1] = v],
          ref |-> ref, exc |-> "none"]

\* Board.with_value: a new Board built from the changed copy of the grid.
Board_with_value(h, ref, r, c, v) ==
    IF check_bounds(h, ref, r, c) # "none"
    THEN [heap |-> h, ref |-> 0, exc |-> "IndexError"]
    ELSE IF check_digit(h, ref, v) # "none"
    THEN [heap |-> h, ref |-> 0, exc |-> "ValueError"]
    ELSE IF h[ref].given[r + 1][c + 1]
    THEN [heap |-> h, ref |-> 0, exc |-> "PermissionError"]
    ELSE LET new_grid == [Board_to_grid(h, ref) EXCEPT ![r + 1][c + 1] = v]
         IN  Board_init(h, new_grid, h[ref].n)

\* Board.is_full
Board_is_full(h, ref) ==
    ~(\E i \in 1 .. Len(h[ref].grid) : \E j \in 1 .. Len(h[ref].grid[i]) :
            h[ref].grid[i][j] = EMPTY)

\* Board.is_given
Board_is_given(h, ref, r, c) ==
    IF check_bounds(h, ref, r, c) # "none"
    THEN [exc |-> "IndexError", val |-> FALSE]
    ELSE [exc |-> "none", val |-> h[ref].given[r + 1][c + 1]]

\* Board.clone handing out the receiver itself instead of a copy.
Board_clone_alias(h, ref) == [heap |-> h, ref |-> ref, exc |-> "none"]

\* Board.clone
Board_clone(h, ref) == Board_init(h, Board_to_grid(h, ref), h[ref].n)

(***************************************************************************)
(* core/rules.py                                                           *)
(***************************************************************************)

\* _infer_n_from_size: the integer root of size (size is always n * n here).
infer_n_from_size(size) == CHOOSE k \in 0 .. size : k * k = size

\* _required_digits
required_digits(size) == 1 .. size

\* SudokuRules.can_place with the row loop not skipping the cell (r, c) itself.
can_place_counting_self(h, board, r, c, v) ==
    LET size == Board_size(h, board)
        n    == infer_n_from_size(size)
        br   == (r \div n) * n
        bc   == (c \div n) * n
    IN  IF v < 1 \/ v > size THEN [exc |-> "ValueError", val |-> FALSE]
        ELSE IF Board_get(h, board, r, c).exc # "none"
        THEN [exc |-> "IndexError", val |-> FALSE]
        ELSE IF \E cc \in 0 .. (size - 1) : Board_get(h, board, r, cc).val = v
        THEN [exc |-> "none", val |-> FALSE]
        ELSE IF \E rr \in 0 .. (size - 1) :
                    rr # r /\ Board_get(h, board, rr, c).val = v
        THEN [exc |-> "none", val |-> FALSE]
        ELSE IF \E rr \in br .. (br + n - 1) : \E cc \in bc .. (bc + n - 1) :
                    (rr # r \/ cc # c) /\ Board_get(h, board, rr, cc).val = v
        THEN [exc |-> "none", val |-> FALSE]
        ELSE [exc |-> "none", val |-> TRUE]

\* SudokuRules.can_place: no other cell of the row, the column or the block of
\* (r, c) holds v.  ValueError for v outside [1, size], IndexError (from
\* board.get) for a cell outside the grid.
can_place(h, board, r, c, v) ==
    LET size == Board_size(h, board)
        n    == infer_n_from_size(size)
        br   == (r \div n) * n
        bc   == (c \div n) * n
    IN  IF v < 1 \/ v > size THEN [exc |-> "ValueError", val |-> FALSE]
        ELSE IF Board_get(h, board, r, c).exc # "none"
        THEN [exc |-> "IndexError", val |-> FALSE]
        ELSE IF \E cc \in 0 .. (size - 1) :
                    cc # c /\ Board_get(h, board, r, cc).val = v
        THEN [exc |-> "none", val |-> FALSE]
        ELSE IF \E rr \in 0 .. (size - 1) :
                    rr # r /\ Board_get(h, board, rr, c).val = v
        THEN [exc |-> "none", val |-> FALSE]
        ELSE IF \E rr \in br .. (br + n - 1) : \E cc \in bc .. (bc + n - 1) :
                    (rr # r \/ cc # c) /\ Board_get(h, board, rr, cc).val = v
        THEN [exc |-> "none", val |-> FALSE]
        ELSE [exc |-> "none", val |-> TRUE]

\* SudokuRules.is_solved without the loop over the blocks.
is_solved_without_blocks(h, board) ==
    LET size     == Board_size(h, board)
        required == required_digits(size)
        row_vals(r) == { Board_get(h, board, r, c).val : c \in 0 .. (size - 1) }
        col_vals(c) == { Board_get(h, board, r, c).val : r \in 0 .. (size - 1) }
    IN  /\ \A r \in 0 .. (size - 1) :
            ~(0 \in row_vals(r) \/ row_vals(r) # required)
        /\ \A c \in 0 .. (size - 1) :
            ~(0 \in col_vals(c) \/ col_vals(c) # required)

\* SudokuRules.is_solved: every row, column and block is exactly {1..size}.
is_solved(h, board) ==
    LET size     == Board_size(h, board)
        required == required_digits(size)
        n        == infer_n_from_size(size)
        row_vals(r) == { Board_get(h, board, r, c).val : c \in 0 .. (size - 1) }
        col_vals(c) == { Board_get(h, board, r, c).val : r \in 0 .. (size - 1) }
        box_vals(br, bc) ==
            { Board_get(h, board, r, c).val :
                r \in br .. (br + n - 1), c \in bc .. (bc + n - 1) }
    IN  /\ \A r \in 0 .. (size - 1) :
            ~(0 \in row_vals(r) \/ row_vals(r) # required)
        /\ \A c \in 0 .. (size - 1) :
            ~(0 \in col_vals(c) \/ col_vals(c) # required)
        /\ \A br \in { k * n : k \in 0 .. (n - 1) } :
           \A bc \in { k * n : k \in 0 .. (n - 1) } :
            ~(0 \in box_vals(br, bc) \/ box_vals(br, bc) # required)

\* SudokuRules.is_globally_consistent: no digit twice among the non-empty cells
\* of a row, a column or a block.
is_globally_consistent(h, board) ==
    LET size == Board_size(h, board)
        n    == infer_n_from_size(size)
        val(cell) == Board_get(h, board, cell[1], cell[2]).val
        nodup(cells) ==
            \A x \in cells, y \in cells :
                (x # y /\ val(x) # 0) => val(x) # val(y)
    IN  /\ \A r \in 0 .. (size - 1) :
            nodup({ <<r, c>> : c \in 0 .. (size - 1) })
        /\ \A c \in 0 .. (size - 1) :
            nodup({ <<r, c>> : r \in 0 .. (size - 1) })
        /\ \A br \in { k * n : k \in 0 .. (n - 1) } :
           \A bc \in { k * n : k \in 0 .. (n - 1) } :
            nodup({ <<r, c>> : r \in br .. (br + n - 1), c \in bc .. (bc + n - 1) })

(***************************************************************************)
(* core/state.py                                                           *)
(*                                                                         *)
(* A State is [board: reference, domains: cell -> set of digits], cells    *)
(* being the code's 0-based (r, c).  A call's outcome carries the heap     *)
(* (Boards are built along the way), the State after the call, and, for    *)
(* assign, the boolean it returned.                                        *)
(***************************************************************************)

\* int(size ** 0.5)
int_sqrt(size) == CHOOSE k \in 0 .. size : k * k <= size /\ size < (k + 1) * (k + 1)

\* State._peers: the cells of the row, then of the column, then of the block
\* of (r, c), in the order the generator yields them ((r, c) itself included).
State_peers(h, board, r, c) ==
    LET size == Board_size(h, board)
        n    == int_sqrt(size)
        br   == (r \div n) * n
        bc   == (c \div n) * n
    IN  [k \in 1 .. size |-> <<r, k - 1>>]
        \o [k \in 1 .. size |-> <<k - 1, c>>]
        \o [k \in 1 .. (n * n) |-> <<br + ((k - 1) \div n), bc + ((k - 1) % n)>>]

\* State._initialize_domains: {v} for a filled cell, 1..size for an empty one.
State_initialize_domains(h, board) ==
    LET size == Board_size(h, board) IN
    [cell \in (0 .. (size - 1)) \X (0 .. (size - 1)) |->
        IF Board_get(h, board, cell[1], cell[2]).val = EMPTY
        THEN 1 .. size
        ELSE { Board_get(h, board, cell[1], cell[2]).val }]

\* The cells State._prune_peers(r, c, .) discards a value from: the peers of
\* (r, c) other than (r, c).
pruned_cells(h, board, r, c) ==
    LET ps == State_peers(h, board, r, c) IN
    { ps[k] : k \in 1 .. Len(ps) } \ { <<r, c>> }

\* State._prune_peers: value discarded from the domain of every peer of (r, c).
State_prune_peers(h, board, domains, r, c, value) ==
    [cell \in DOMAIN domains |->
        IF cell \in pruned_cells(h, board, r, c)
        THEN domains[cell] \ {value} ELSE domains[cell]]

\* State.initial_prune, the two nested loops: _prune_peers(r, c, v) for every
\* filled cell (r, c) holding v.  The discards commute, so each cell ends
\* without the values of the filled cells that prune it.
initial_prune_loop(h, board, domains) ==
    LET size   == Board_size(h, board)
        filled == { p \in (0 .. (size - 1)) \X (0 .. (size - 1)) :
                      Board_get(h, board, p[1], p[2]).val # EMPTY }
    IN  [cell \in DOMAIN domains |->
            domains[cell] \
                { Board_get(h, board, p[1], p[2]).val :
                    p \in { q \in filled :
                              cell \in pruned_cells(h, board, q[1], q[2]) } }]

\* State.initial_prune: the pruned domains, ValueError if one of them is empty.
State_initial_prune(h, st) ==
    LET domains == initial_prune_loop(h, st.board, st.domains) IN
    [state |-> [st EXCEPT !.domains = domains],
     exc   |-> IF \E cell \in DOMAIN domains : domains[cell] = {}
               THEN "ValueError" ELSE "none"]

\* State.__init__: works on a clone of the Board it is given.
State_init(h, board) ==
    LET cl == Board_clone(h, board)
        st == [board |-> cl.ref,
               domains |-> State_initialize_domains(cl.heap, cl.ref)]
        pr == State_initial_prune(cl.heap, st)
    IN  IF cl.exc # "none" THEN [heap |-> h, state |-> <<>>, exc |-> cl.exc]
        ELSE [heap |-> cl.heap, state |-> pr.state, exc |-> pr.exc]

\* State._set_cell replacing the board but leaving the domain as it was.
State_set_cell_board_only(h, st, r, c, value) ==
    LET w == Board_with_value(h, st.board, r, c, value) IN
    IF w.exc # "none" THEN [heap |-> h, state |-> st, exc |-> w.exc]
    ELSE [heap  |-> w.heap,
          state |-> [st EXCEPT !.board = w.ref],
          exc   |-> "none"]

\* State._set_cell: the board is replaced by board.with_value(r, c, value) and
\* the domain by {value}.
State_set_cell(h, st, r, c, value) ==
    LET w == Board_with_value(h, st.board, r, c, value) IN
    IF w.exc # "none" THEN [heap |-> h, state |-> st, exc |-> w.exc]
    ELSE [heap  |-> w.heap,
          state |-> [st EXCEPT !.board = w.ref, !.domains[<<r, c>>] = {value}],
          exc   |-> "none"]

\* The turns of the for loop of State.assign that `continue' (the peer is the
\* popped cell itself, or val is not in its domain): the index of the first
\* peer from the i-th on that is pruned, Len(ps) + 1 if there is none.
assign_skip_peers(st, cr, cc, val, ps, i) ==
    LET pruned == { j \in i .. Len(ps) :
                      ps[j] # <<cr, cc>> /\ val \in st.domains[ps[j]] }
    IN  IF pruned = {} THEN Len(ps) + 1
        ELSE CHOOSE j \in pruned : \A k \in pruned : j <= k

RECURSIVE assign_peers(_, _, _, _, _, _, _, _)

\* State.assign, the for loop over the peers ps of the popped (cr, cc, val)
\* from the i-th peer on: the state and the queue at the end of the loop, or
\* the failure (ok = FALSE) that leaves assign from inside it.
assign_peers(h, st, queue, cr, cc, val, ps, i0) ==
    LET i == assign_skip_peers(st, cr, cc, val, ps, i0) IN
    IF i > Len(ps)
    THEN [heap |-> h, state |-> st, queue |-> queue, ok |-> TRUE, exc |-> "none"]
    ELSE LET domain == st.domains[ps[i]] \ {val}
             st1    == [st EXCEPT !.domains[ps[i]] = domain]
             sole   == CHOOSE x \in domain : TRUE
             sc     == State_set_cell(h, st1, ps[i][1], ps[i][2], sole)
         IN  IF domain = {}
             THEN [heap |-> h, state |-> st1, queue |-> queue,
                   ok |-> FALSE, exc |-> "none"]
             ELSE IF Cardinality(domain) = 1
                     /\ Board_get(h, st1.board, ps[i][1], ps[i][2]).val = EMPTY
             THEN IF sc.exc # "none"
                  THEN [heap |-> h, state |-> st1, queue |-> queue,
                        ok |-> FALSE, exc |-> sc.exc]
                  ELSE assign_peers(sc.heap, sc.state,
                                    Append(queue, <<ps[i][1], ps[i][2], sole>>),
                                    cr, cc, val, ps, i + 1)
             ELSE assign_peers(h, st1, queue, cr, cc, val, ps, i + 1)

\* State.assign with a while loop that drops the queue without propagating.
assign_queue_without_propagation(h, st, queue) ==
    [heap |-> h, state |-> st, ok |-> TRUE, exc |-> "none"]

RECURSIVE assign_queue(_, _, _)
RECURSIVE assign_queue_next(_)

\* State.assign, the while loop: the last entry of the queue is popped and its
\* peers are pruned.
assign_queue(h, st, queue) ==
    IF queue = <<>>
    THEN [heap |-> h, state |-> st, ok |-> TRUE, exc |-> "none"]
    ELSE LET top == queue[Len(queue)] IN
         assign_queue_next(
             assign_peers(h, st, SubSeq(queue, 1, Len(queue) - 1),
                          top[1], top[2], top[3],
                          State_peers(h, st.board, top[1], top[2]), 1))

\* State.assign after the for loop of one popped entry (p: what the loop left):
\* out on a failure, otherwise the next turn of the while loop.
assign_queue_next(p) ==
    IF ~p.ok
    THEN [heap |-> p.heap, state |-> p.state, ok |-> FALSE, exc |-> p.exc]
    ELSE assign_queue(p.heap, p.state, p.queue)

\* State.assign without the test that value is a candidate of (r, c).
State_assign_any_value(h, st, r, c, value) ==
    IF <<r, c>> \notin DOMAIN st.domains
    THEN [heap |-> h, state |-> st, ok |-> FALSE, exc |-> "none"]
    ELSE LET sc == State_set_cell(h, st, r, c, value) IN
         IF sc.exc # "none"
         THEN [heap |-> h, state |-> st, ok |-> FALSE, exc |-> sc.exc]
         ELSE assign_queue(sc.heap, sc.state, << <<r, c, value>> >>)

\* State.assign
State_assign(h, st, r, c, value) ==
    IF <<r, c>> \notin DOMAIN st.domains \/ value \notin st.domains[<<r, c>>]
    THEN [heap |-> h, state |-> st, ok |-> FALSE, exc |-> "none"]
    ELSE LET sc == State_set_cell(h, st, r, c, value) IN
         IF sc.exc # "none"
         THEN [heap |-> h, state |-> st, ok |-> FALSE, exc |-> sc.exc]
         ELSE assign_queue(sc.heap, sc.state, << <<r, c, value>> >>)

\* State.clone: State(self.board.clone()), then the domains copied over.
State_clone(h, st) ==
    LET cl == Board_clone(h, st.board)
        ns == State_init(cl.heap, cl.ref)
    IN  IF cl.exc # "none" THEN [heap |-> h, state |-> <<>>, exc |-> cl.exc]
        ELSE IF ns.exc # "none" THEN [heap |-> ns.heap, state |-> <<>>, exc |-> ns.exc]
        ELSE [heap  |-> ns.heap,
              state |-> [ns.state EXCEPT !.domains = st.domains],
              exc   |-> "none"]

(***************************************************************************)
(* solvers/backtracking.py                                                 *)
(***************************************************************************)

\* SearchMetrics(), HeuristicMetrics(), ForwardMetrics(): all counters zero.
SearchMetrics == [explored_nodes |-> 0, backtracks |-> 0, max_depth |-> 0]

\* max(x, y)
Max(x, y) == IF x >= y THEN x ELSE y

\* StepEvent: cell is <<>> for None and <<r, c>> for a cell, candidates is <<>>
\* for None and <<x>> for a value x; board is a reference.
StepEvent(step_type, cell, value, candidates, board, depth) ==
    [step_type |-> step_type, cell |-> cell, value |-> value,
     candidates |-> candidates, board |-> board, depth |-> depth]

\* The outcome of a search: the heap and the metrics after it, the events it
\* emitted (explain mode), and the Board it returned (res = 0: None) or the
\* exception that left it.
Outcome(h, m, evs, res, exc) ==
    [heap |-> h, metrics |-> m, events |-> evs, res |-> res, exc |-> exc]

\* BacktrackingSolver._select_cell taking the last empty cell in row-major
\* order instead of the first.
Bt_select_cell_last(h, board) ==
    LET size    == Board_size(h, board)
        empties == { cell \in (0 .. (size - 1)) \X (0 .. (size - 1)) :
                        Board_get(h, board, cell[1], cell[2]).val = 0 }
    IN  IF empties = {} THEN <<>>
        ELSE CHOOSE cell \in empties :
                \A o \in empties :
                    cell[1] > o[1] \/ (cell[1] = o[1] /\ cell[2] >= o[2])

\* BacktrackingSolver._select_cell: the first empty cell in row-major order
\* (<<>>: None).
Bt_select_cell(h, board) ==
    LET size    == Board_size(h, board)
        empties == { cell \in (0 .. (size - 1)) \X (0 .. (size - 1)) :
                        Board_get(h, board, cell[1], cell[2]).val = 0 }
    IN  IF empties = {} THEN <<>>
        ELSE CHOOSE cell \in empties :
                \A o \in empties :
                    cell[1] < o[1] \/ (cell[1] = o[1] /\ cell[2] <= o[2])

\* BacktrackingSolver._ordered_candidates stopping one digit short:
\* 1, 2, .., size - 1.
Bt_ordered_candidates_short(h, board, row, col) ==
    [i \in 1 .. (Board_size(h, board) - 1) |-> i]

\* BacktrackingSolver._ordered_candidates: 1, 2, .., size.
Bt_ordered_candidates(h, board, row, col) ==
    [i \in 1 .. Board_size(h, board) |-> i]

\* The turns `if not can_place(...): continue' of the for loops of _search and
\* _search_events: the index of the first candidate from the i-th on that
\* can_place accepts, Len(cands) + 1 if there is none.
Bt_skip_unplaceable(h, board, row, col, cands, i) ==
    LET ok == { j \in i .. Len(cands) : can_place(h, board, row, col, cands[j]).val }
    IN  IF ok = {} THEN Len(cands) + 1
        ELSE CHOOSE j \in ok : \A k \in ok : j <= k

RECURSIVE Bt_search(_, _, _)
RECURSIVE Bt_search_loop(_, _, _, _, _, _, _)

\* BacktrackingSolver._search, the for loop from the i-th candidate on; the
\* candidates that can_place rejects are passed over (`continue').
Bt_search_loop(h, m, board, row, col, cands, i0) ==
    LET i      == Bt_skip_unplaceable(h, board, row, col, cands, i0)
        w      == Board_with_value(h, board, row, col, cands[i])
        solved == Bt_search(w.heap, m, w.ref)
    IN  CASE i > Len(cands) -> Outcome(h, m, <<>>, 0, "none")
          [] w.exc = "PermissionError" ->
                 Bt_search_loop(h, m, board, row, col, cands, i + 1)
          [] w.exc # "none" -> Outcome(h, m, <<>>, 0, w.exc)
          [] solved.res # 0 \/ solved.exc # "none" -> solved
          [] OTHER -> Bt_search_loop(solved.heap, solved.metrics,
                                     board, row, col, cands, i + 1)

\* BacktrackingSolver._search
Bt_search(h, m, board) ==
    LET m1        == [m EXCEPT !.explored_nodes = @ + 1]
        next_cell == Bt_select_cell(h, board)
    IN  IF next_cell = <<>>
        THEN Outcome(h, m1, <<>>,
                     IF is_solved(h, board) THEN board ELSE 0, "none")
        ELSE Bt_search_loop(h, m1, board, next_cell[1], next_cell[2],
                 Bt_ordered_candidates(h, board, next_cell[1], next_cell[2]), 1)

\* BacktrackingSolver.solve
Bt_solve(h, board) == Bt_search(h, SearchMetrics, board)

RECURSIVE Bt_search_events(_, _, _, _, _)
RECURSIVE Bt_search_events_loop(_, _, _, _, _, _, _, _, _)

\* BacktrackingSolver._search_events, the for loop from the i-th candidate on;
\* the candidates that can_place rejects are passed over (`continue').
Bt_search_events_loop(h, m, evs, board, depth, row, col, cands, i0) ==
    LET i      == Bt_skip_unplaceable(h, board, row, col, cands, i0)
        w      == Board_with_value(h, board, row, col, cands[i])
        assign == StepEvent("assign", <<row, col>>, cands[i],
                            <<cands>>, w.ref, depth)
        result == Bt_search_events(w.heap, m, Append(evs, assign),
                                   w.ref, depth + 1)
    IN  CASE i > Len(cands) -> Outcome(h, m, evs, 0, "none")
          [] w.exc = "PermissionError" ->
                 Bt_search_events_loop(h, m, evs, board, depth,
                                       row, col, cands, i + 1)
          [] w.exc # "none" -> Outcome(h, m, evs, 0, w.exc)
          [] result.res # 0 \/ result.exc # "none" -> result
          [] OTHER ->
                 Bt_search_events_loop(
                     result.heap,
                     [result.metrics EXCEPT !.backtracks = @ + 1],
                     Append(result.events,
                            StepEvent("backtrack", <<row, col>>, 0,
                                      <<cands>>, board, depth)),
                     board, depth, row, col, cands, i + 1)

\* BacktrackingSolver._search_events
Bt_search_events(h, m, evs, board, depth) ==
    LET m1 == [m EXCEPT !.explored_nodes = @ + 1,
                        !.max_depth = Max(@, depth)]
        next_cell == Bt_select_cell(h, board)
    IN  IF next_cell = <<>>
        THEN Outcome(h, m1,
                     Append(evs, StepEvent("finished", <<>>, 0, <<>>, board, depth)),
                     board, "none")
        ELSE Bt_search_events_loop(h, m1, evs, board, depth,
                 next_cell[1], next_cell[2],
                 Bt_ordered_candidates(h, board, next_cell[1], next_cell[2]), 1)

\* BacktrackingSolver.solve_generator, driven to exhaustion.
Bt_solve_generator(h, board) ==
    Bt_search_events(h, SearchMetrics, <<>>, board, 0)

(***************************************************************************)
(* solvers/heuristics.py                                                   *)
(***************************************************************************)

\* get_candidates: the digits can_place accepts at (r, c).
get_candidates(h, board, r, c) ==
    { v \in 1 .. Board_size(h, board) : can_place(h, board, r, c, v).val }

\* The turns `if board.get(r, c) != 0: continue' of a row-major loop over the
\* cells: the index of the first empty cell from the k-th on, size * size if
\* there is none.
skip_filled(h, board, k) ==
    LET size  == Board_size(h, board)
        empty == { j \in k .. (size * size - 1) :
                     Board_get(h, board, j \div size, j % size).val = 0 }
    IN  IF empty = {} THEN size * size
        ELSE CHOOSE j \in empty : \A i \in empty : j <= i

RECURSIVE mrv_loop(_, _, _, _, _)

\* select_cell_mrv, the two nested loops from the k-th cell (row-major) on,
\* with the best cell and count found so far (<<>> and 0 - 1: None).
mrv_loop(h, board, k0, best_cell, best_count) ==
    LET size  == Board_size(h, board)
        k     == skip_filled(h, board, k0)
        r     == k \div size
        c     == k % size
        count == Cardinality(get_candidates(h, board, r, c))
    IN  CASE k >= size * size -> best_cell
          [] count = 0 -> <<r, c>>
          [] count = 1 /\ (best_count < 0 \/ count < best_count) -> <<r, c>>
          [] best_count < 0 \/ count < best_count ->
                 mrv_loop(h, board, k + 1, <<r, c>>, count)
          [] OTHER -> mrv_loop(h, board, k + 1, best_cell, best_count)

\* select_cell_mrv (<<>>: None)
select_cell_mrv(h, board) == mrv_loop(h, board, 0, <<>>, 0 - 1)

\* _collect_neighbors: the other cells of the row, the column and the block.
collect_neighbors(h, board, r, c) ==
    LET size == Board_size(h, board)
        n    == infer_n_from_size(size)
        br   == (r \div n) * n
        bc   == (c \div n) * n
    IN  { <<r, i>> : i \in (0 .. (size - 1)) \ {c} }
        \cup { <<i, c>> : i \in (0 .. (size - 1)) \ {r} }
        \cup ({ <<rr, cc>> : rr \in br .. (br + n - 1), cc \in bc .. (bc + n - 1) }
                \ { <<r, c>> })

\* The impact order_candidates_lcv scores val with: the empty neighbours of
\* (r, c) at which can_place accepts val on the board as it is.
lcv_impact(h, board, r, c, val) ==
    Cardinality({ nb \in collect_neighbors(h, board, r, c) :
                    /\ Board_get(h, board, nb[1], nb[2]).val = 0
                    /\ can_place(h, board, nb[1], nb[2], val).val })

RECURSIVE lcv_sort(_, _, _, _, _)

\* scored.sort(key = (impact, val)): the candidates left, smallest key first.
lcv_sort(h, board, r, c, left) ==
    IF left = {} THEN <<>>
    ELSE LET key(v) == <<lcv_impact(h, board, r, c, v), v>>
             first  == CHOOSE v \in left :
                          \A w \in left :
                              \/ key(v)[1] < key(w)[1]
                              \/ (key(v)[1] = key(w)[1] /\ key(v)[2] <= key(w)[2])
         IN  <<first>> \o lcv_sort(h, board, r, c, left \ {first})

\* order_candidates_lcv
order_candidates_lcv(h, board, r, c, candidates) ==
    lcv_sort(h, board, r, c, candidates)

(***************************************************************************)
(* solvers/heuristic_solver.py                                             *)
(***************************************************************************)

RECURSIVE H_search(_, _, _, _, _)
RECURSIVE H_search_loop(_, _, _, _, _, _, _, _, _)

\* HeuristicBacktrackingSolver._search, the for loop from the i-th value on.
H_search_loop(h, m, evs, board, depth, r, c, ordered, i) ==
    LET w      == Board_with_value(h, board, r, c, ordered[i])
        assign == StepEvent("assign", <<r, c>>, ordered[i],
                            <<ordered>>, w.ref, depth)
        result == H_search(w.heap, m, Append(evs, assign), w.ref, depth + 1)
    IN  CASE i > Len(ordered) -> Outcome(h, m, evs, 0, "none")
          [] w.exc = "PermissionError" ->
                 H_search_loop(h, m, evs, board, depth, r, c, ordered, i + 1)
          [] w.exc # "none" -> Outcome(h, m, evs, 0, w.exc)
          [] result.res # 0 \/ result.exc # "none" -> result
          [] OTHER ->
                 H_search_loop(
                     result.heap,
                     [result.metrics EXCEPT !.backtracks = @ + 1],
                     Append(result.events,
                            StepEvent("backtrack", <<r, c>>, 0,
                                      <<ordered>>, board, depth)),
                     board, depth, r, c, ordered, i + 1)

\* HeuristicBacktrackingSolver._search
H_search(h, m, evs, board, depth) ==
    LET m1 == [m EXCEPT !.explored_nodes = @ + 1,
                        !.max_depth = Max(@, depth)]
        cell == select_cell_mrv(h, board)
        candidates == get_candidates(h, board, cell[1], cell[2])
    IN  CASE cell = <<>> ->
                 Outcome(h, m1,
                         Append(evs, StepEvent("finished", <<>>, 0, <<>>,
                                               board, depth)),
                         board, "none")
          [] candidates = {} ->
                 Outcome(h, [m1 EXCEPT !.backtracks = @ + 1],
                         Append(evs, StepEvent("backtrack", cell, 0, <<<<>>>>,
                                               board, depth)),
                         0, "none")
          [] OTHER ->
                 H_search_loop(h, m1, evs, board, depth, cell[1], cell[2],
                     order_candidates_lcv(h, board, cell[1], cell[2], candidates), 1)

\* HeuristicBacktrackingSolver.solve_generator, driven to exhaustion.
H_solve_generator(h, board) == H_search(h, SearchMetrics, <<>>, board, 0)

RECURSIVE H_last_finished(_, _, _)

\* The for loop of HeuristicBacktrackingSolver.solve from the k-th event on:
\* the Board of the last "finished" event (0: None).
H_last_finished(evs, k, solved_board) ==
    IF k > Len(evs) THEN solved_board
    ELSE IF evs[k].step_type = "finished" /\ evs[k].board # 0
    THEN H_last_finished(evs, k + 1, evs[k].board)
    ELSE H_last_finished(evs, k + 1, solved_board)

\* HeuristicBacktrackingSolver.solve
H_solve(h, board) ==
    LET g == H_solve_generator(h, board) IN
    Outcome(g.heap, g.metrics, <<>>,
            IF g.exc = "none" THEN H_last_finished(g.events, 1, 0) ELSE 0,
            g.exc)

(***************************************************************************)
(* solvers/forward_checking.py                                             *)
(***************************************************************************)

RECURSIVE sorted(_)

\* sorted(domain): the digits in ascending order.
sorted(domain) ==
    IF domain = {} THEN <<>>
    ELSE LET least == CHOOSE x \in domain : \A y \in domain : x <= y
         IN  <<least>> \o sorted(domain \ {least})

RECURSIVE Fc_select_loop(_, _, _, _, _)

\* ForwardCheckingSolver._select_cell, the two nested loops from the k-th cell
\* (row-major) on, with the best cell and length so far (<<>>, 0 - 1: None).
Fc_select_loop(h, st, k0, best, best_len) ==
    LET size == Board_size(h, st.board)
        k    == skip_filled(h, st.board, k0)
        r    == k \div size
        c    == k % size
        domain_size == Cardinality(st.domains[<<r, c>>])
    IN  CASE k >= size * size -> best
          [] domain_size = 1 /\ (best_len < 0 \/ domain_size < best_len) -> <<r, c>>
          [] best_len < 0 \/ domain_size < best_len ->
                 Fc_select_loop(h, st, k + 1, <<r, c>>, domain_size)
          [] OTHER -> Fc_select_loop(h, st, k + 1, best, best_len)

\* ForwardCheckingSolver._select_cell (<<>>: None)
Fc_select_cell(h, st) == Fc_select_loop(h, st, 0, <<>>, 0 - 1)

RECURSIVE Fc_search(_, _, _, _)
RECURSIVE Fc_search_loop(_, _, _, _, _, _, _, _)

\* ForwardCheckingSolver._search, the end of one turn of the for loop: solved
\* is what the recursive _search returned.
Fc_search_returned(st, depth, r, c, candidates, i, solved) ==
    IF solved.res # 0 \/ solved.exc # "none" THEN solved
    ELSE Fc_search_loop(solved.heap,
                        [solved.metrics EXCEPT !.backtracks = @ + 1],
                        st, depth, r, c, candidates, i + 1)

\* ForwardCheckingSolver._search, one turn of the for loop after
\* ok = new_state.assign(r, c, val) ended with outcome a.
Fc_search_assigned(m, st, depth, r, c, candidates, i, a) ==
    CASE a.exc # "none" -> Outcome(a.heap, m, <<>>, 0, a.exc)
      [] ~a.ok -> Fc_search_loop(a.heap, [m EXCEPT !.backtracks = @ + 1],
                                 st, depth, r, c, candidates, i + 1)
      [] OTHER -> Fc_search_returned(st, depth, r, c, candidates, i,
                                     Fc_search(a.heap, m, a.state, depth + 1))

\* ForwardCheckingSolver._search, one turn of the for loop after
\* new_state = state.clone().
Fc_search_cloned(m, st, depth, r, c, candidates, i, new_state) ==
    IF new_state.exc # "none"
    THEN Outcome(new_state.heap, m, <<>>, 0, new_state.exc)
    ELSE Fc_search_assigned(m, st, depth, r, c, candidates, i,
             State_assign(new_state.heap, new_state.state, r, c, candidates[i]))

\* ForwardCheckingSolver._search, the for loop from the i-th candidate on.
Fc_search_loop(h, m, st, depth, r, c, candidates, i) ==
    IF i > Len(candidates) THEN Outcome(h, m, <<>>, 0, "none")
    ELSE Fc_search_cloned(m, st, depth, r, c, candidates, i, State_clone(h, st))

\* ForwardCheckingSolver._search
Fc_search(h, m, st, depth) ==
    LET m1 == [m EXCEPT !.explored_nodes = @ + 1,
                        !.max_depth = Max(@, depth)]
        cell == Fc_select_cell(h, st)
    IN  CASE Board_is_full(h, st.board) ->
                 Outcome(h, m1, <<>>,
                         IF is_solved(h, st.board) THEN st.board ELSE 0, "none")
          [] cell = <<>> -> Outcome(h, m1, <<>>, 0, "none")
          [] OTHER -> Fc_search_loop(h, m1, st, depth, cell[1], cell[2],
                                     sorted(st.domains[cell]), 1)

\* ForwardCheckingSolver.solve
Fc_solve(h, board) ==
    LET state == State_init(h, board) IN
    IF state.exc # "none"
    THEN Outcome(state.heap, SearchMetrics, <<>>, 0, state.exc)
    ELSE Fc_search(state.heap, SearchMetrics, state.state, 0)

(***************************************************************************)
(* solvers/dlx_lib.py                                                      *)
(*                                                                         *)
(* The matrix is a record of the node fields, each a function of the node  *)
(* identity: node 1 is the root header, nodes 2 .. 4*size*size + 1 are the *)
(* column headers (columns[i] is node i + 2), the DataObjects follow in    *)
(* the order they are created; 0 stands for None.                          *)
(***************************************************************************)

\* cover(column)'s inner loop unlinking the nodes without taking them off
\* their columns' sizes.
RECURSIVE cover_row_keeping_size(_, _, _)
cover_row_keeping_size(m, i, j) ==
    IF j = i THEN m
    ELSE LET m1 == [m  EXCEPT !.up[m.down[j]] = m.up[j]]
             m2 == [m1 EXCEPT !.down[m1.up[j]] = m1.down[j]]
         IN  cover_row_keeping_size(m2, i, m2.right[j])

\* cover(column)'s inner loop: j runs right from i's neighbour back to i.
RECURSIVE cover_row(_, _, _)
cover_row(m, i, j) ==
    IF j = i THEN m
    ELSE LET m1 == [m  EXCEPT !.up[m.down[j]] = m.up[j]]
             m2 == [m1 EXCEPT !.down[m1.up[j]] = m1.down[j]]
             m3 == [m2 EXCEPT !.size[m2.column[j]] = @ - 1]
         IN  cover_row(m3, i, m3.right[j])

\* cover(column)'s outer loop: i runs down from the header back to it.
RECURSIVE cover_rows(_, _, _)
cover_rows(m, column, i) ==
    IF i = column THEN m
    ELSE LET m1 == cover_row(m, i, m.right[i]) IN
         cover_rows(m1, column, m1.down[i])

\* cover(column)
cover(m, column) ==
    LET m1 == [m  EXCEPT !.left[m.right[column]] = m.left[column]]
        m2 == [m1 EXCEPT !.right[m1.left[column]] = m1.right[column]]
    IN  cover_rows(m2, column, m2.down[column])

\* uncover(column)'s inner loop relinking the nodes without adding them back
\* to their columns' sizes.
RECURSIVE uncover_row_keeping_size(_, _, _)
uncover_row_keeping_size(m, i, j) ==
    IF j = i THEN m
    ELSE LET m2 == [m  EXCEPT !.up[m.down[j]] = j]
             m3 == [m2 EXCEPT !.down[m2.up[j]] = j]
         IN  uncover_row_keeping_size(m3, i, m3.left[j])

\* uncover(column)'s inner loop: j runs left from i's neighbour back to i.
RECURSIVE uncover_row(_, _, _)
uncover_row(m, i, j) ==
    IF j = i THEN m
    ELSE LET m1 == [m  EXCEPT !.size[m.column[j]] = @ + 1]
             m2 == [m1 EXCEPT !.up[m1.down[j]] = j]
             m3 == [m2 EXCEPT !.down[m2.up[j]] = j]
         IN  uncover_row(m3, i, m3.left[j])

\* uncover(column)'s outer loop putting no row back.
uncover_rows_none(m, column, i) == m

\* uncover(column)'s outer loop: i runs up from the header back to it.
RECURSIVE uncover_rows(_, _, _)
uncover_rows(m, column, i) ==
    IF i = column THEN m
    ELSE LET m1 == uncover_row(m, i, m.left[i]) IN
         uncover_rows(m1, column, m1.up[i])

\* uncover(column) leaving the header of the column out of the header ring.
uncover_rows_only(m, column) == uncover_rows(m, column, m.up[column])

\* uncover(column)
uncover(m, column) ==
    LET m1 == uncover_rows(m, column, m.up[column])
        m2 == [m1 EXCEPT !.left[m1.right[column]] = column]
    IN  [m2 EXCEPT !.right[m2.left[column]] = column]

\* _choose_column's loop from header c on, with the best column so far
\* (0: None, its size then standing for infinity).
RECURSIVE choose_column_loop(_, _, _, _)
choose_column_loop(m, c, best, min_size) ==
    IF c = 1 THEN best
    ELSE IF best = 0 \/ m.size[c] < min_size
    THEN choose_column_loop(m, m.right[c], c, m.size[c])
    ELSE choose_column_loop(m, m.right[c], best, min_size)

\* _choose_column(root): the first live column of least size (0: None).
choose_column(m) == choose_column_loop(m, m.right[1], 0, 0)

\* search's loops over the other nodes of row r: cover going right, uncover
\* going left.
RECURSIVE cover_others(_, _, _)
cover_others(m, r, j) ==
    IF j = r THEN m
    ELSE LET m1 == cover(m, m.column[j]) IN cover_others(m1, r, m1.right[j])

RECURSIVE uncover_others(_, _, _)
uncover_others(m, r, j) ==
    IF j = r THEN m
    ELSE LET m1 == uncover(m, m.column[j]) IN uncover_others(m1, r, m1.left[j])

RECURSIVE search_first(_, _)
RECURSIVE search_first_rows(_, _, _, _)

\* search(root, solution) resumed once: the while loop over the rows r of the
\* chosen column c, up to the first yield.
search_first_rows(m, solution, c, r) ==
    IF r = c THEN [m |-> uncover(m, c), solution |-> solution, found |-> FALSE]
    ELSE LET m1  == cover_others(m, r, m.right[r])
             sub == search_first(m1, Append(solution, r))
             m2  == uncover_others(sub.m, r, sub.m.left[r])
         IN  IF sub.found THEN sub
             ELSE search_first_rows(m2, solution, c, m2.down[r])

\* search(root, solution) resumed once (the solver takes the first yielded
\* solution and never resumes the generator): the matrix as the generator
\* leaves it, and the solution it yielded if it yielded one.
search_first(m, solution) ==
    LET c  == choose_column(m)
        m1 == cover(m, c)
    IN  IF m.right[1] = 1
        THEN [m |-> m, solution |-> solution, found |-> TRUE]
        ELSE IF c = 0 THEN [m |-> m, solution |-> solution, found |-> FALSE]
        ELSE search_first_rows(m1, solution, c, m1.down[c])

(***************************************************************************)
(* solvers/dlx_solver.py                                                   *)
(***************************************************************************)

\* DlxMetrics()
DlxMetrics == [solutions |-> 0, explored_rows |-> 0]

\* DlxSolver.solve, the loops that collect rows_map: in row-major cell
\* order, a filled cell contributes the option of its digit if can_place
\* accepts it, an empty cell one option per digit can_place accepts, in
\* increasing digit order.
build_rows_map(h, board) ==
    LET size == Board_size(h, board)
        all  == [k \in 1 .. size * size * size |->
                   << (k - 1) \div (size * size),
                      ((k - 1) \div size) % size,
                      ((k - 1) % size) + 1 >>]
        keep(opt) ==
            LET cur == Board_get(h, board, opt[1], opt[2]).val IN
            /\ cur # EMPTY => opt[3] = cur
            /\ can_place(h, board, opt[1], opt[2], opt[3]).val
    IN  SelectSeq(all, keep)

\* col_indices with the block of a cell taken from its column's position
\* inside the block (c % n) instead of the block's position (c // n).
col_indices_block_by_offset(opt, size, n) ==
    LET r == opt[1]
        c == opt[2]
        v == opt[3]
        cell_col == r * size + c
        row_col  == size * size + r * size + (v - 1)
        col_col  == 2 * size * size + c * size + (v - 1)
        box_idx  == (r \div n) * n + (c % n)
        box_col  == 3 * size * size + box_idx * size + (v - 1)
    IN  <<cell_col, row_col, col_col, box_col>>

\* DlxSolver._append_option, col_indices: the columns (indices into the
\* columns list) of option (r, c, v).
col_indices(opt, size, n) ==
    LET r == opt[1]
        c == opt[2]
        v == opt[3]
        cell_col == r * size + c
        row_col  == size * size + r * size + (v - 1)
        col_col  == 2 * size * size + c * size + (v - 1)
        box_idx  == (r \div n) * n + (c \div n)
        box_col  == 3 * size * size + box_idx * size + (v - 1)
    IN  <<cell_col, row_col, col_col, box_col>>

\* DlxSolver._build_headers followed by one _append_option per entry of
\* rows_map: the root and the column headers linked left to right in a ring;
\* the four nodes of option i (row_id i - 1) linked into a horizontal ring
\* and each appended at the bottom of its column, so that a column lists its
\* nodes downwards in the order the options were appended.
build_matrix(rows_map, size, n) ==
    LET total_cols == 4 * size * size
        last_col   == total_cols + 1
        nrows      == Len(rows_map)
        node(i, k) == last_col + 4 * (i - 1) + k
        row_of(x)  == ((x - last_col - 1) \div 4) + 1
        pos_of(x)  == ((x - last_col - 1) % 4) + 1
        col_of(x)  == col_indices(rows_map[row_of(x)], size, n)[pos_of(x)] + 2
        kind(col)  == ((col - 2) \div (size * size)) + 1
        members(col) ==
            { node(i, kind(col)) : i \in
                { i \in 1 .. nrows :
                    col_indices(rows_map[i], size, n)[kind(col)] + 2 = col } }
        above(x, col) == { y \in members(col) : y < x }
        below(x, col) == { y \in members(col) : y > x }
        top(S)    == CHOOSE y \in S : \A z \in S : y <= z
        bottom(S) == CHOOSE y \in S : \A z \in S : y >= z
        heads == 1 .. last_col
        data  == 1 .. (4 * nrows)
    IN  [left   |-> [x \in heads |-> IF x = 1 THEN last_col ELSE x - 1]
                    \o [d \in data |-> LET x == last_col + d IN
                          node(row_of(x), ((pos_of(x) + 2) % 4) + 1)],
         right  |-> [x \in heads |-> IF x = last_col THEN 1 ELSE x + 1]
                    \o [d \in data |-> LET x == last_col + d IN
                          node(row_of(x), (pos_of(x) % 4) + 1)],
         up     |-> [x \in heads |->
                        IF x = 1 \/ members(x) = {} THEN x
                        ELSE bottom(members(x))]
                    \o [d \in data |-> LET x == last_col + d IN
                          IF above(x, col_of(x)) = {} THEN col_of(x)
                          ELSE bottom(above(x, col_of(x)))],
         down   |-> [x \in heads |->
                        IF x = 1 \/ members(x) = {} THEN x
                        ELSE top(members(x))]
                    \o [d \in data |-> LET x == last_col + d IN
                          IF below(x, col_of(x)) = {} THEN col_of(x)
                          ELSE top(below(x, col_of(x)))],
         column |-> [x \in heads |-> x]
                    \o [d \in data |-> col_of(last_col + d)],
         size   |-> [x \in heads |->
                        IF x = 1 THEN 0 ELSE Cardinality(members(x))]
                    \o [d \in data |-> 0],
         row_id |-> [x \in heads |-> 0 - 1]
                    \o [d \in data |-> row_of(last_col + d) - 1]]

RECURSIVE fill_solution(_, _, _, _, _)

\* DlxSolver.solve, the loop that writes the options of the solution nodes
\* into solved_grid, from the k-th node on.
fill_solution(m, rows_map, solution_nodes, solved_grid, k) ==
    IF k > Len(solution_nodes) THEN solved_grid
    ELSE LET opt == rows_map[m.row_id[solution_nodes[k]] + 1] IN
         fill_solution(m, rows_map, solution_nodes,
                       [solved_grid EXCEPT ![opt[1] + 1][opt[2] + 1] = opt[3]],
                       k + 1)

\* DlxSolver.solve
Dlx_solve(h, board) ==
    LET size  == Board_size(h, board)
        n     == int_sqrt(size)
        rows_map == build_rows_map(h, board)
        built == [m |-> build_matrix(rows_map, size, n), rows_map |-> rows_map]
        sol   == search_first(built.m, <<>>)
        grid0 == [i \in 1 .. size |-> [j \in 1 .. size |->
                    Board_get(h, board, i - 1, j - 1).val]]
        solved_grid  == fill_solution(built.m, built.rows_map, sol.solution, grid0, 1)
        solved_board == Board_init(h, solved_grid, n)
    IN  IF ~sol.found
        THEN Outcome(h, DlxMetrics, <<>>, 0, "none")
        ELSE IF solved_board.exc # "none"
        THEN Outcome(h, [solutions |-> 1, explored_rows |-> Len(built.rows_map)],
                     <<>>, 0, solved_board.exc)
        ELSE Outcome(solved_board.heap,
                     [solutions |-> 1, explored_rows |-> Len(built.rows_map)],
                     <<>>,
                     IF is_solved(solved_board.heap, solved_board.ref)
                     THEN solved_board.ref ELSE 0,
                     "none")

(***************************************************************************)
(* SpecBoard: a client holding a Board b, and a Board b2 derived from it,  *)
(* calling the Board API with arbitrary arguments.                         *)
(***************************************************************************)

\* A valid solved grid of side Size (row r is the first row shifted).
BaseGrid ==
    [i \in 1 .. Size |-> [j \in 1 .. Size |->
        ((N * ((i - 1) % N) + ((i - 1) \div N) + (j - 1)) % Size) + 1]]

ZeroGrid == [i \in 1 .. Size |-> [j \in 1 .. Size |-> EMPTY]]

\* BaseGrid with the cells of the odd diagonals and cell (1, 1) cleared.
PartialGrid ==
    [i \in 1 .. Size |-> [j \in 1 .. Size |->
        IF (i + j) % 2 = 1 \/ (i = 2 /\ j = 2) THEN EMPTY ELSE BaseGrid[i][j]]]

\* Grids handed to Board(grid, n) in SpecBoard: well-formed ones, and ones the
\* constructor must refuse (a missing row, a short row, digits out of range).
BoardGrids ==
    { ZeroGrid, PartialGrid, BaseGrid,
      Tail(ZeroGrid),
      [ZeroGrid EXCEPT ![1] = Tail(@)],
      [PartialGrid EXCEPT ![1][2] = Size + 1],
      [PartialGrid EXCEPT ![1][2] = 0 - 1] }

\* Cell arguments of SpecBoard's calls: two cells inside the grid and one
\* outside it on each side.
ArgCells ==
    { <<0, 0>>, <<1, 1>>, <<0 - 1, 0>>, <<0, 0 - 1>>, <<Size, 0>>, <<0, Size>> }

\* Digit arguments of SpecBoard's calls: inside and outside [0, Size].
ArgVals == { 0 - 1, 0, 1, Size, Size + 1 }

Targets == IF b2 = 0 THEN {"b"} ELSE {"b", "b2"}

Ref(t) == IF t = "b" THEN b ELSE b2

Call(op, t, r, c, v, exc, val, flag) ==
    [op |-> op, target |-> t, r |-> r, c |-> c, v |-> v,
     exc |-> exc, val |-> val, flag |-> flag]

\* The objects still referenced by b and by the new value of b2 (the Board that
\* b2 referenced before is dropped with its last reference).
Rebind(h, newref) ==
    IF newref = b
    THEN [heap |-> <<h[b]>>, b2 |-> 1]
    ELSE [heap |-> <<h[b], h[newref]>>, b2 |-> 2]

InitBoard ==
    \E g \in BoardGrids :
        LET o == Board_init(<<>>, g, N) IN
        /\ heap = o.heap
        /\ b = o.ref
        /\ b2 = 0
        /\ ctor = [b |-> g, b2 |-> <<>>]
        /\ last = Call("init", "b", 0, 0, 0, o.exc, 0, FALSE)
        /\ ncalls = 0
        /\ dstate = <<>>
        /\ matrix = <<>>
        /\ puzzle = <<>>
        /\ ret = <<>>

CallGet ==
    /\ b # 0 /\ ncalls < MaxCalls
    /\ \E t \in Targets, cell \in ArgCells :
        LET o == Board_get(heap, Ref(t), cell[1], cell[2]) IN
        last' = Call("get", t, cell[1], cell[2], 0, o.exc, o.val, FALSE)
    /\ ncalls' = ncalls + 1
    /\ UNCHANGED <<heap, b, b2, ctor, puzzle, ret, dstate, matrix>>

CallSet ==
    /\ b # 0 /\ ncalls < MaxCalls
    /\ \E t \in Targets, cell \in ArgCells, v \in ArgVals :
        LET o == Board_set(heap, Ref(t), cell[1], cell[2], v) IN
        /\ heap' = o.heap
        /\ last' = Call("set", t, cell[1], cell[2], v, o.exc, 0, FALSE)
    /\ ncalls' = ncalls + 1
    /\ UNCHANGED <<b, b2, ctor, puzzle, ret, dstate, matrix>>

CallWithValue ==
    /\ b # 0 /\ ncalls < MaxCalls
    /\ \E cell \in ArgCells, v \in ArgVals :
        LET o == Board_with_value(heap, b, cell[1], cell[2], v) IN
        /\ last' = Call("with_value", "b", cell[1], cell[2], v, o.exc, 0, FALSE)
        /\ IF o.exc = "none"
           THEN /\ heap' = Rebind(o.heap, o.ref).heap
                /\ b2' = Rebind(o.heap, o.ref).b2
                /\ ctor' = [ctor EXCEPT !.b2 = o.heap[o.ref].grid]
           ELSE /\ heap' = o.heap
                /\ UNCHANGED <<b2, ctor>>
    /\ ncalls' = ncalls + 1
    /\ UNCHANGED <<b, puzzle, ret, dstate, matrix>>

CallClone ==
    /\ b # 0 /\ ncalls < MaxCalls
    /\ LET o == Board_clone(heap, b) IN
        /\ last' = Call("clone", "b", 0, 0, 0, o.exc, 0, FALSE)
        /\ IF o.exc = "none"
           THEN /\ heap' = Rebind(o.heap, o.ref).heap
                /\ b2' = Rebind(o.heap, o.ref).b2
                /\ ctor' = [ctor EXCEPT !.b2 = o.heap[o.ref].grid]
           ELSE /\ heap' = o.heap
                /\ UNCHANGED <<b2, ctor>>
    /\ ncalls' = ncalls + 1
    /\ UNCHANGED <<b, puzzle, ret, dstate, matrix>>

CallIsFull ==
    /\ b # 0 /\ ncalls < MaxCalls
    /\ \E t \in Targets :
        last' = Call("is_full", t, 0, 0, 0, "none", 0, Board_is_full(heap, Ref(t)))
    /\ ncalls' = ncalls + 1
    /\ UNCHANGED <<heap, b, b2, ctor, puzzle, ret, dstate, matrix>>

CallIsGiven ==
    /\ b # 0 /\ ncalls < MaxCalls
    /\ \E t \in Targets, cell \in ArgCells :
        LET o == Board_is_given(heap, Ref(t), cell[1], cell[2]) IN
        last' = Call("is_given", t, cell[1], cell[2], 0, o.exc, 0, o.val)
    /\ ncalls' = ncalls + 1
    /\ UNCHANGED <<heap, b, b2, ctor, puzzle, ret, dstate, matrix>>

NextBoard ==
    \/ CallGet
    \/ CallSet
    \/ CallWithValue
    \/ CallClone
    \/ CallIsFull
    \/ CallIsGiven

SpecBoard == InitBoard /\ [][NextBoard]_vars

(***************************************************************************)
(* Claims about the Board (checked under SpecBoard)                        *)
(***************************************************************************)

\* The Board object behind a target, and the other target.
Obj(t) == heap[Ref(t)]

Other(t) == IF t = "b" THEN "b2" ELSE "b"

\* C6: after any sequence of get, set, with_value, clone, is_full and is_given
\* calls, each Board's grid is exactly size x size, every stored digit is in
\* [0, size], and every cell that was non-empty when the Board was built still
\* holds the value it was built with.
C6_BoardInvariant ==
    b # 0 =>
        \A t \in Targets :
            /\ Obj(t).size = Size
            /\ Len(Obj(t).grid) = Size
            /\ \A i \in 1 .. Len(Obj(t).grid) :
                /\ Len(Obj(t).grid[i]) = Size
                /\ \A j \in 1 .. Len(Obj(t).grid[i]) :
                    /\ Obj(t).grid[i][j] \in 0 .. Size
                    /\ ctor[t][i][j] # EMPTY => Obj(t).grid[i][j] = ctor[t][i][j]

\* C6 witness: a set on a given cell was refused after an earlier set changed
\* the same Board.
C6_Witness ==
    /\ b # 0
    /\ last.op = "set"
    /\ last.exc = "PermissionError"
    /\ Obj(last.target).grid # ctor[last.target]

\* The outcome the contract of set(r, c, v) prescribes on Board object o.
SetContractExc(o, r, c, v) ==
    IF ~(r \in 0 .. (o.size - 1) /\ c \in 0 .. (o.size - 1)) THEN "IndexError"
    ELSE IF v \notin 0 .. o.size THEN "ValueError"
    ELSE IF o.given[r + 1][c + 1] THEN "PermissionError"
    ELSE "none"

\* C7: set(r, c, v) fails with IndexError when (r, c) is outside the grid, with
\* ValueError when v is outside [0, size], with PermissionError when (r, c) is a
\* given cell (the checks are made in this order); a failing call changes no
\* cell and no given flag, a successful one changes only cell (r, c), to v.
C7_SetContract ==
    [][ last'.op = "set" =>
          LET o  == heap[Ref(last'.target)]
              o1 == heap'[Ref(last'.target)]
              r  == last'.r
              c  == last'.c
              v  == last'.v
          IN  /\ last'.exc = SetContractExc(o, r, c, v)
              /\ last'.exc # "none" => o1 = o
              /\ last'.exc = "none" =>
                    /\ o1.given = o.given
                    /\ o1.grid = [o.grid EXCEPT ![r + 1][c + 1] = v]
      ]_vars

\* C7 witness: a set was refused because its target is a given cell.
C7_Witness ==
    /\ last.op = "set"
    /\ last.exc = "PermissionError"
    /\ Obj(last.target).given[last.r + 1][last.c + 1]
    /\ last.v \in 0 .. Size

\* C8: a Board shares no mutable state with the Board derived from it by clone
\* or with_value: a set on either leaves the other unchanged; with_value and
\* clone leave the receiver unchanged and return another object; the result of
\* with_value differs from the receiver only at (r, c).
C8_NoSharedState ==
    [][ /\ (last'.op = "set" /\ b2 # 0) =>
              heap'[Ref(Other(last'.target))] = heap[Ref(Other(last'.target))]
        /\ last'.op \in {"with_value", "clone"} => heap'[b'] = heap[b]
        /\ (last'.op \in {"with_value", "clone"} /\ last'.exc = "none") =>
              b2' # b'
        /\ (last'.op = "with_value" /\ last'.exc = "none") =>
              heap'[b2'].grid =
                  [heap[b].grid EXCEPT ![last'.r + 1][last'.c + 1] = last'.v]
        /\ (last'.op = "clone" /\ last'.exc = "none") =>
              heap'[b2'].grid = heap[b].grid
      ]_vars

\* C8 witness: a successful set on the derived Board made it differ from the
\* Board it was derived from.
C8_Witness ==
    /\ b2 # 0
    /\ last.op = "set"
    /\ last.target = "b2"
    /\ last.exc = "none"
    /\ heap[b2].grid[last.r + 1][last.c + 1] # heap[b].grid[last.r + 1][last.c + 1]

\* C9 (as claimed): clone duplicates the values and the given mask, so right
\* after b2 = b.clone() every cell has the same value and the same is_given
\* answer in b2 as in b.
C9_CloneKeepsGivenMask ==
    (last.op = "clone" /\ last.exc = "none") =>
        \A r \in Idx, c \in Idx :
            /\ Board_get(heap, b2, r, c) = Board_get(heap, b, r, c)
            /\ Board_is_given(heap, b2, r, c) = Board_is_given(heap, b, r, c)

\* C10 (as claimed): the Board returned by with_value has the same given cells
\* as the receiver, so the written cell is not a given of the result.
C10_WithValueKeepsGivenMask ==
    (last.op = "with_value" /\ last.exc = "none") =>
        \A r \in Idx, c \in Idx :
            Board_is_given(heap, b2, r, c) = Board_is_given(heap, b, r, c)

(***************************************************************************)
(* SpecSolve: a client builds one input Board from a puzzle grid and calls *)
(* the strategies on it, one call after the other.                         *)
(***************************************************************************)

\* The cells that may be cleared in a puzzle, in the order in which the bound
\* MaxHoles admits them.
HoleOrder ==
    << <<1, 1>>, <<2, 3>>, <<1, 3>>, <<2, 1>>, <<3, 2>>, <<4, 4>>,
       <<1, 2>>, <<3, 4>>, <<2, 2>>, <<4, 1>>, <<1, 4>>, <<3, 3>>,
       <<2, 4>>, <<4, 2>>, <<3, 1>>, <<4, 3>> >>

HoleCells == { HoleOrder[k] : k \in 1 .. MaxHoles }

\* The cells that may be overwritten with another digit.
EditCells == { <<1, 2>>, <<3, 1>> }

\* BaseGrid with the cells of holes cleared.
Punch(holes) ==
    [i \in 1 .. Size |-> [j \in 1 .. Size |->
        IF <<i, j>> \in holes THEN EMPTY ELSE BaseGrid[i][j]]]

\* Puzzles with few givens: one that has solutions and on which every search
\* strategy abandons placements, and two whose givens are rule-consistent but
\* that have no solution.
SparseGrids ==
    { << <<0, 0, 0, 0>>, <<0, 0, 0, 0>>, <<3, 4, 0, 2>>, <<0, 0, 3, 4>> >>,
      << <<2, 0, 0, 0>>, <<0, 4, 3, 0>>, <<0, 0, 0, 1>>, <<3, 0, 4, 0>> >>,
      << <<1, 0, 4, 0>>, <<0, 0, 3, 0>>, <<0, 3, 0, 1>>, <<0, 0, 0, 0>> >> }

\* The puzzle grids: the solved BaseGrid with any subset of HoleCells cleared
\* and at most one of EditCells then set to any digit; the grid with no givens;
\* the sparse puzzles.
Puzzles ==
    { Punch(holes) : holes \in SUBSET HoleCells }
    \cup { [Punch(holes) EXCEPT ![cell[1]][cell[2]] = v] :
             holes \in SUBSET HoleCells, cell \in EditCells, v \in 1 .. Size }
    \cup { ZeroGrid }
    \cup SparseGrids

Calls == <<"bt", "heur", "fc", "dlx", "bt_gen", "heur_gen">>

Pending == [status |-> "pending"]

\* What the client keeps of a finished call: the exception or the returned
\* Board (its state when the call ended, and whether it is the input object
\* itself), the metrics, and the events with each event's Board as it is when
\* the call ended.
Done(o) ==
    [status  |-> "done",
     exc     |-> o.exc,
     res     |-> IF o.exc = "none" /\ o.res # 0 THEN "Board" ELSE "None",
     board   |-> IF o.exc = "none" /\ o.res # 0 THEN o.heap[o.res] ELSE <<>>,
     same    |-> o.exc = "none" /\ o.res = 1,
     metrics |-> o.metrics,
     events  |-> [k \in 1 .. Len(o.events) |->
                    [o.events[k] EXCEPT !.board = o.heap[@]]]]

InitSolve ==
    \E g \in Puzzles :
        LET o == Board_init(<<>>, g, N) IN
        /\ heap = o.heap
        /\ puzzle = g
        /\ ret = [s \in { Calls[k] : k \in 1 .. Len(Calls) } |-> Pending]
        /\ b = 0
        /\ b2 = 0
        /\ ctor = <<>>
        /\ last = <<>>
        /\ ncalls = 0
        /\ dstate = <<>>
        /\ matrix = <<>>

\* The call s is the next one the client makes.
IsNext(s) ==
    \E k \in 1 .. Len(Calls) :
        /\ Calls[k] = s
        /\ ret[s] = Pending
        /\ \A j \in 1 .. (k - 1) : ret[Calls[j]] # Pending

\* The client's state after call s ended with outcome o: the input Board as
\* the call left it, and the call's result.
Returned(s, o) ==
    /\ heap' = <<o.heap[1]>>
    /\ ret' = [ret EXCEPT ![s] = Done(o)]
    /\ UNCHANGED <<b, b2, ctor, last, ncalls, puzzle, dstate, matrix>>

SolveBacktracking ==
    /\ IsNext("bt")
    /\ Returned("bt", Bt_solve(heap, 1))

GenerateBacktracking ==
    /\ IsNext("bt_gen")
    /\ Returned("bt_gen", Bt_solve_generator(heap, 1))

SolveHeuristic ==
    /\ IsNext("heur")
    /\ Returned("heur", H_solve(heap, 1))

SolveForwardChecking ==
    /\ IsNext("fc")
    /\ Returned("fc", Fc_solve(heap, 1))

SolveDlx ==
    /\ IsNext("dlx")
    /\ Returned("dlx", Dlx_solve(heap, 1))

GenerateHeuristic ==
    /\ IsNext("heur_gen")
    /\ Returned("heur_gen", H_solve_generator(heap, 1))

NextSolve ==
    \/ SolveBacktracking
    \/ SolveHeuristic
    \/ SolveForwardChecking
    \/ SolveDlx
    \/ GenerateBacktracking
    \/ GenerateHeuristic

SpecSolve == InitSolve /\ [][NextSolve]_vars

(***************************************************************************)
(* Claims about the solvers                                                *)
(***************************************************************************)

\* The strategies' solve calls and their solve_generator calls.
SolveCalls == {"bt", "heur", "fc", "dlx"}
GeneratorCalls == {"bt_gen", "heur_gen"}

\* The permutations of 1 .. Size as rows.
RowPerms ==
    { p \in [1 .. Size -> 1 .. Size] :
        \A i \in 1 .. Size : \A j \in 1 .. Size : i # j => p[i] # p[j] }

\* The horizontal bands of N rows in which no block repeats a digit.
Bands ==
    { t \in [1 .. N -> RowPerms] :
        \A i \in 1 .. N : \A j \in 1 .. N : \A x \in 1 .. Size : \A y \in 1 .. Size :
            (<<i, x>> # <<j, y>> /\ (x - 1) \div N = (y - 1) \div N)
                => t[i][x] # t[j][y] }

\* Every completely filled grid that satisfies the Sudoku rules, enumerated
\* independently of the solvers: N bands stacked so that no column repeats a
\* digit.
SolvedGrids ==
    { [i \in 1 .. Size |-> u[((i - 1) \div N) + 1][((i - 1) % N) + 1]] :
        u \in { u \in [1 .. N -> Bands] :
                  \A j \in 1 .. Size : \A i \in 1 .. N : \A k \in 1 .. N :
                  \A x \in 1 .. N : \A y \in 1 .. N :
                      <<i, x>> # <<k, y>> => u[i][x][j] # u[k][y][j] } }

\* The solutions of grid g: the solved grids that agree with g on every
\* non-empty cell of g.
Solutions(g) ==
    { s \in SolvedGrids :
        \A i \in 1 .. Size : \A j \in 1 .. Size :
            g[i][j] # EMPTY => s[i][j] = g[i][j] }

\* The number of empty cells of grid g.
Holes(g) ==
    Cardinality({ cell \in (1 .. Size) \X (1 .. Size) : g[cell[1]][cell[2]] = EMPTY })

\* All of the four solve calls have returned.
AllSolved == \A s \in SolveCalls : ret[s].status = "done"

\* C1: on a puzzle that has at least one solution (its givens are then
\* rule-consistent), each of the four solve calls returns a Board, not None
\* and no exception, for which SudokuRules.is_solved is true and in which
\* every cell that was non-empty in the input holds the input's value.
C1_SolvableIsSolved ==
    Solutions(puzzle) # {} =>
        \A s \in SolveCalls :
            ret[s].status = "done" =>
                /\ ret[s].exc = "none"
                /\ ret[s].res = "Board"
                /\ is_solved(<<ret[s].board>>, 1)
                /\ \A i \in 1 .. Size : \A j \in 1 .. Size :
                      puzzle[i][j] # EMPTY =>
                          ret[s].board.grid[i][j] = puzzle[i][j]

\* C1 witness: the four strategies have solved a puzzle that has givens,
\* several empty cells and more than one solution.
C1_Witness ==
    /\ AllSolved
    /\ Holes(puzzle) >= 4
    /\ Holes(puzzle) < Size * Size
    /\ Cardinality(Solutions(puzzle)) > 1
    /\ \A s \in SolveCalls : ret[s].res = "Board"

\* C2 (as claimed): whatever the input Board, a value returned by a solve call
\* is None or a completely filled Board for which SudokuRules.is_solved is
\* true.
C2_ReturnsNoneOrSolved ==
    \A s \in SolveCalls :
        (ret[s].status = "done" /\ ret[s].exc = "none" /\ ret[s].res = "Board") =>
            /\ Board_is_full(<<ret[s].board>>, 1)
            /\ is_solved(<<ret[s].board>>, 1)

\* C3 (as claimed): on an input that has no solution no call raises, every
\* solve call returns None and every solve_generator traversal ends without a
\* "finished" event.
C3_UnsatisfiableFailsQuietly ==
    Solutions(puzzle) = {} =>
        /\ \A s \in SolveCalls \cup GeneratorCalls :
              ret[s].status = "done" => ret[s].exc = "none"
        /\ \A s \in SolveCalls :
              ret[s].status = "done" => ret[s].res = "None"
        /\ \A s \in GeneratorCalls :
              ret[s].status = "done" =>
                  \A k \in 1 .. Len(ret[s].events) :
                      ret[s].events[k].step_type # "finished"

\* C4: after any number of solve calls and solve_generator traversals, each
\* ended by a result, by None or by an exception, the input Board has the cell
\* values and the given flags it was constructed with.
C4_InputUnchanged ==
    /\ Len(heap) = 1
    /\ heap[1] = Board_init(<<>>, puzzle, N).heap[1]

\* C4 witness: all solve calls and both traversals have ended on a puzzle with
\* empty cells; one call returned a Board that is not the input object, and
\* the traversals emitted events.
C4_Witness ==
    /\ \A s \in SolveCalls \cup GeneratorCalls : ret[s].status = "done"
    /\ Holes(puzzle) >= 3
    /\ ret["bt"].res = "Board"
    /\ ~ret["bt"].same
    /\ \A s \in GeneratorCalls : Len(ret[s].events) >= 3

\* C5: on a puzzle that has exactly one solution, plain backtracking, heuristic
\* backtracking, forward checking and DLX all return a Board, and the four
\* Boards hold the same grid (the solution), cell for cell.
C5_UniqueSolutionAgreed ==
    (Cardinality(Solutions(puzzle)) = 1 /\ AllSolved) =>
        /\ \A s \in SolveCalls : ret[s].exc = "none" /\ ret[s].res = "Board"
        /\ \A s \in SolveCalls : \A t \in SolveCalls :
              ret[s].board.grid = ret[t].board.grid
        /\ \A s \in SolveCalls : ret[s].board.grid \in Solutions(puzzle)

\* C5 witness: the four strategies have returned from a puzzle with several
\* empty cells and exactly one solution.
C5_Witness ==
    /\ AllSolved
    /\ Holes(puzzle) >= 3
    /\ Cardinality(Solutions(puzzle)) = 1
    /\ ret["dlx"].res = "Board"

(***************************************************************************)
(* SpecRules: a client builds a Board from a grid and asks the rule oracle *)
(* one question about it: can_place with some arguments, or is_solved.     *)
(***************************************************************************)

\* A grid whose rows and columns each hold 1 .. Size once, but whose blocks
\* do not.
LatinGrid == [i \in 1 .. Size |-> [j \in 1 .. Size |-> (((i - 1) + (j - 1)) % Size) + 1]]

\* The grids put to the oracle: the puzzles, every solved grid, BaseGrid with
\* any one cell cleared or set to any digit, and LatinGrid.
RuleGrids ==
    Puzzles \cup SolvedGrids \cup { LatinGrid }
    \cup { [BaseGrid EXCEPT ![i][j] = v] :
             i \in 1 .. Size, j \in 1 .. Size, v \in 0 .. Size }

\* The cells can_place is asked about: every cell of the grid and two
\* coordinates outside it.
RuleCells == ((0 .. (Size - 1)) \X (0 .. (Size - 1))) \cup { <<0 - 1, 0>>, <<0, Size>> }

InitRules ==
    \E g \in RuleGrids :
        /\ heap = Board_init(<<>>, g, N).heap
        /\ puzzle = g
        /\ last = <<>>
        /\ b = 0
        /\ b2 = 0
        /\ ctor = <<>>
        /\ ncalls = 0
        /\ dstate = <<>>
        /\ matrix = <<>>
        /\ ret = <<>>

CallCanPlace ==
    /\ last = <<>>
    /\ \E cell \in RuleCells, v \in ArgVals :
        LET o == can_place(heap, 1, cell[1], cell[2], v) IN
        last' = Call("can_place", "b", cell[1], cell[2], v, o.exc, 0, o.val)
    /\ UNCHANGED <<heap, b, b2, ctor, ncalls, puzzle, ret, dstate, matrix>>

CallIsSolved ==
    /\ last = <<>>
    /\ last' = Call("is_solved", "b", 0, 0, 0, "none", 0, is_solved(heap, 1))
    /\ UNCHANGED <<heap, b, b2, ctor, ncalls, puzzle, ret, dstate, matrix>>

NextRules ==
    \/ CallCanPlace
    \/ CallIsSolved

SpecRules == InitRules /\ [][NextRules]_vars

(***************************************************************************)
(* Claims about the rule oracle                                            *)
(***************************************************************************)

\* The cells (1-based) that share the row, the column or the N x N block of
\* cell (i, j), (i, j) itself excluded.
OtherPeers(i, j) ==
    { cell \in (1 .. Size) \X (1 .. Size) :
        /\ cell # <<i, j>>
        /\ \/ cell[1] = i
           \/ cell[2] = j
           \/ /\ (cell[1] - 1) \div N = (i - 1) \div N
              /\ (cell[2] - 1) \div N = (j - 1) \div N }

\* C11: can_place(board, r, c, v) fails with ValueError when v is outside
\* [1, size]; for v in range and (r, c) on the board it returns true exactly
\* when no cell other than (r, c) in row r, column c or the block of (r, c)
\* holds v; and the board is the same after the call as before it.
C11_CanPlace ==
    (last # <<>> /\ last.op = "can_place") =>
        /\ heap = Board_init(<<>>, puzzle, N).heap
        /\ last.v \notin 1 .. Size => last.exc = "ValueError"
        /\ (/\ last.v \in 1 .. Size
            /\ last.r \in 0 .. (Size - 1)
            /\ last.c \in 0 .. (Size - 1)) =>
              /\ last.exc = "none"
              /\ last.flag =
                    (\A cell \in OtherPeers(last.r + 1, last.c + 1) :
                        puzzle[cell[1]][cell[2]] # last.v)

\* C11 witness: can_place returned true for the digit the asked cell already
\* holds, on a grid with other filled cells.
C11_Witness ==
    /\ last # <<>>
    /\ last.op = "can_place"
    /\ last.exc = "none"
    /\ last.flag
    /\ puzzle[last.r + 1][last.c + 1] = last.v
    /\ Holes(puzzle) < 4

\* Every row, every column and every N x N block of grid g holds each digit of
\* 1 .. Size exactly once (no cell is then empty).
EachDigitOnce(g) ==
    LET count(cells, d) == Cardinality({ cell \in cells : g[cell[1]][cell[2]] = d })
        rows   == { { <<i, j>> : j \in 1 .. Size } : i \in 1 .. Size }
        cols   == { { <<i, j>> : i \in 1 .. Size } : j \in 1 .. Size }
        blocks == { { <<(N * x) + i, (N * y) + j>> : i \in 1 .. N, j \in 1 .. N } :
                      x \in 0 .. (N - 1), y \in 0 .. (N - 1) }
    IN  \A unit \in rows \cup cols \cup blocks : \A d \in 1 .. Size :
            count(unit, d) = 1

\* Grid g is a solved grid with exactly one cell changed to a different digit.
OneCellOff(g) ==
    \E s \in SolvedGrids :
        Cardinality({ cell \in (1 .. Size) \X (1 .. Size) :
                        g[cell[1]][cell[2]] # s[cell[1]][cell[2]] }) = 1
        /\ \A i \in 1 .. Size : \A j \in 1 .. Size : g[i][j] # EMPTY

\* C12: is_solved(board) is true exactly when every cell is non-empty and
\* every row, column and block holds each digit of 1 .. size exactly once; on
\* a solved grid with one cell changed to a different digit it is false.
C12_IsSolved ==
    (last # <<>> /\ last.op = "is_solved") =>
        /\ last.exc = "none"
        /\ last.flag = EachDigitOnce(puzzle)
        /\ OneCellOff(puzzle) => ~last.flag
        /\ heap = Board_init(<<>>, puzzle, N).heap

\* C12 witness: is_solved returned false on a full grid whose rows and columns
\* are all complete (only the blocks repeat digits).
C12_Witness ==
    /\ last # <<>>
    /\ last.op = "is_solved"
    /\ ~last.flag
    /\ puzzle = LatinGrid

(***************************************************************************)
(* SpecState: a client builds a State from a puzzle Board and calls assign *)
(* on it for as long as the calls succeed.                                 *)
(***************************************************************************)

\* The puzzles a State is built from: BaseGrid with any subset of the first
\* MaxStateHoles cells of HoleOrder cleared and at most one of EditCells then
\* set to any digit.
StateHoleCells == { HoleOrder[k] : k \in 1 .. MaxStateHoles }
StatePuzzles ==
    { Punch(holes) : holes \in SUBSET StateHoleCells }
    \cup { [Punch(holes) EXCEPT ![cell[1]][cell[2]] = v] :
             holes \in SUBSET StateHoleCells, cell \in EditCells, v \in 1 .. Size }

\* The cells (0-based, as the code names them) and values assign is called
\* with: every cell that may be empty, one cell that never is, one coordinate
\* outside the grid; every digit and 0.
AssignCells ==
    { <<cell[1] - 1, cell[2] - 1>> : cell \in StateHoleCells }
    \cup { <<HoleOrder[Len(HoleOrder)][1] - 1, HoleOrder[Len(HoleOrder)][2] - 1>>,
           <<0, Size>> }
AssignVals == 0 .. Size

\* The State st with its Board as the only object of the heap (the Boards that
\* assign replaced are no longer referenced).
OwnBoard(h, st) == [heap |-> <<h[st.board]>>, state |-> [st EXCEPT !.board = 1]]

InitState ==
    \E g \in StatePuzzles :
        LET o == State_init(Board_init(<<>>, g, N).heap, 1) IN
        /\ puzzle = g
        /\ IF o.exc = "none"
           THEN heap = OwnBoard(o.heap, o.state).heap
                /\ dstate = OwnBoard(o.heap, o.state).state
           ELSE heap = <<>> /\ dstate = <<>>
        /\ last = Call("State", "state", 0, 0, 0, o.exc, 0, o.exc = "none")
        /\ ncalls = 0
        /\ b = 0
        /\ b2 = 0
        /\ ctor = <<>>
        /\ ret = <<>>
        /\ matrix = <<>>

\* state.assign(r, c, value), called only on a State whose construction and
\* earlier assign calls all succeeded.
CallAssign ==
    /\ dstate # <<>>
    /\ last.exc = "none" /\ last.flag
    /\ ncalls < MaxAssigns
    /\ \E cell \in AssignCells, v \in AssignVals :
        LET o == State_assign(heap, dstate, cell[1], cell[2], v) IN
        /\ heap' = OwnBoard(o.heap, o.state).heap
        /\ dstate' = OwnBoard(o.heap, o.state).state
        /\ last' = Call("assign", "state", cell[1], cell[2], v, o.exc, 0, o.ok)
    /\ ncalls' = ncalls + 1
    /\ UNCHANGED <<b, b2, ctor, puzzle, ret, matrix>>

NextState == CallAssign

SpecState == InitState /\ [][NextState]_vars

(***************************************************************************)
(* Claims about the State                                                  *)
(***************************************************************************)

\* The grid of the State's Board.
StateGrid == heap[dstate.board].grid

\* The State exists and every call made on it so far succeeded.
StateSound == dstate # <<>> /\ last.exc = "none" /\ last.flag

\* C13: in a State built from a Board and changed only by assign calls that
\* all returned success, the domain of every filled cell is {its value} and
\* the domain of every empty cell is the set of digits that no filled peer
\* (same row, column or block) holds.
C13_DomainsMatchBoard ==
    StateSound =>
        \A i \in 1 .. Size : \A j \in 1 .. Size :
            dstate.domains[<<i - 1, j - 1>>] =
                IF StateGrid[i][j] # EMPTY
                THEN { StateGrid[i][j] }
                ELSE { v \in 1 .. Size :
                         \A cell \in OtherPeers(i, j) :
                             StateGrid[cell[1]][cell[2]] # v }

\* C13 witness: after two successful assign calls the Board has gained more
\* cells than the calls named (propagation committed others) and still has
\* empty cells.
C13_Witness ==
    /\ StateSound
    /\ last.op = "assign"
    /\ ncalls = 2
    /\ Holes(puzzle) - Holes(StateGrid) > 2
    /\ Holes(StateGrid) > 0

\* C14 (as claimed): when assign(r, c, value) has returned success, a second
\* assign(r, c, value) on the same State returns success without raising and
\* leaves the board and every domain unchanged.
C14_AssignIdempotent ==
    [][ (/\ last.op = "assign" /\ last.exc = "none" /\ last.flag
         /\ last'.op = "assign"
         /\ <<last'.r, last'.c, last'.v>> = <<last.r, last.c, last.v>>)
        => (/\ last'.exc = "none"
            /\ last'.flag
            /\ dstate' = dstate
            /\ heap' = heap)
      ]_vars

\* C21: assign(r, c, value) with a value that is not in the candidate set of
\* (r, c) (or a cell that has none) returns failure without raising and
\* leaves the State's board and every candidate set as they were.
C21_RejectedAssignChangesNothing ==
    [][ (/\ last'.op = "assign"
         /\ dstate # <<>>
         /\ \/ <<last'.r, last'.c>> \notin DOMAIN dstate.domains
            \/ last'.v \notin dstate.domains[<<last'.r, last'.c>>])
        => (/\ last'.exc = "none"
            /\ ~last'.flag
            /\ dstate' = dstate
            /\ heap' = heap)
      ]_vars

\* C21 witness: after a successful assign, an assign of a digit to an empty
\* cell whose candidate set does not hold it has returned failure.
C21_Witness ==
    /\ dstate # <<>>
    /\ last.op = "assign" /\ ncalls = 2
    /\ ~last.flag
    /\ last.v \in 1 .. Size
    /\ <<last.r, last.c>> \in DOMAIN dstate.domains
    /\ StateGrid[last.r + 1][last.c + 1] = EMPTY
    /\ dstate.domains[<<last.r, last.c>>] # {}
    /\ last.v \notin dstate.domains[<<last.r, last.c>>]

\* C22: in a State built from a Board and changed only by assign calls that
\* all returned success, every cell whose candidate set has exactly one value
\* holds that value on the board.
C22_SingletonsCommitted ==
    StateSound =>
        \A i \in 1 .. Size : \A j \in 1 .. Size :
            Cardinality(dstate.domains[<<i - 1, j - 1>>]) = 1 =>
                dstate.domains[<<i - 1, j - 1>>] = { StateGrid[i][j] }

\* The same for the States reached by at least one successful assign.
C22_SingletonsCommittedAfterAssign ==
    (StateSound /\ last.op = "assign") =>
        \A i \in 1 .. Size : \A j \in 1 .. Size :
            Cardinality(dstate.domains[<<i - 1, j - 1>>]) = 1 =>
                dstate.domains[<<i - 1, j - 1>>] = { StateGrid[i][j] }

(***************************************************************************)
(* SpecClone: a client builds a State, may assign on it, clones it and     *)
(* calls assign on the clone.  Here the candidate sets are objects: a      *)
(* State object holds its Board and a dict from cells to set objects, kept *)
(* in the store `sets' of dstate, so that two States can share a set.      *)
(* assign discards from a set in place (domain.discard) and _set_cell      *)
(* binds the cell to a new set.                                            *)
(***************************************************************************)

\* The cells in row-major order.
CellSeq == [k \in 1 .. (Size * Size) |-> <<(k - 1) \div Size, (k - 1) % Size>>]

\* The State value an object stands for: its Board and the contents of its
\* candidate sets.
Deref(sets, obj) ==
    [board   |-> obj.board,
     domains |-> [cell \in DOMAIN obj.domains |-> sets[obj.domains[cell]]]]

\* A State object for the value st, with a newly allocated set per cell.
Alloc(sets, st) ==
    [sets |-> sets \o [k \in 1 .. (Size * Size) |-> st.domains[CellSeq[k]]],
     obj  |-> [board   |-> st.board,
               domains |-> [cell \in DOMAIN st.domains |->
                              Len(sets) + (CHOOSE k \in 1 .. (Size * Size) :
                                              CellSeq[k] = cell)]]]

\* State.clone keeping the set objects of the original in the new dict
\* (a copy of the dict alone).
State_clone_objects_shallow(h, sets, obj) ==
    LET cl == State_clone(h, Deref(sets, obj)) IN
    IF cl.exc # "none"
    THEN [heap |-> cl.heap, sets |-> sets, obj |-> <<>>, exc |-> cl.exc]
    ELSE [heap |-> cl.heap,
          sets |-> sets,
          obj  |-> [board |-> cl.state.board, domains |-> obj.domains],
          exc  |-> "none"]

\* State.clone on objects: State(self.board.clone()), then a new dict with a
\* new set(v) for every cell.
State_clone_objects(h, sets, obj) ==
    LET cl == State_clone(h, Deref(sets, obj))
        al == Alloc(sets, cl.state)
    IN  IF cl.exc # "none"
        THEN [heap |-> cl.heap, sets |-> sets, obj |-> <<>>, exc |-> cl.exc]
        ELSE [heap |-> cl.heap, sets |-> al.sets, obj |-> al.obj, exc |-> "none"]

\* The objects after State.assign returned o.  The cells committed by the call (those whose
\* board value changed) were bound to a new set by _set_cell; the set a cell
\* was bound to before was changed in place by the discards: for a cell
\* committed by propagation it was left holding the committed value alone,
\* for the cell named by the call it was not touched, for every other cell
\* it is the cell's set still.
assign_write_back(h, sets, obj, r, c, o) ==
    LET val(hh, bb, cell) == Board_get(hh, bb, cell[1], cell[2]).val
        committed == { cell \in DOMAIN obj.domains :
                         val(o.heap, o.state.board, cell) # val(h, obj.board, cell) }
        rank(cell) == Cardinality({ k \in 1 .. (Size * Size) :
                          /\ CellSeq[k] \in committed
                          /\ k <= (CHOOSE i \in 1 .. (Size * Size) : CellSeq[i] = cell) })
        owner(id) == { cell \in DOMAIN obj.domains : obj.domains[cell] = id }
        old(id) ==
            IF owner(id) = {} THEN sets[id]
            ELSE LET cell == CHOOSE x \in owner(id) : TRUE IN
                 CASE cell \notin committed -> o.state.domains[cell]
                   [] cell = <<r, c>> -> sets[id]
                   [] OTHER -> { val(o.heap, o.state.board, cell) }
        fresh == [k \in 1 .. Cardinality(committed) |->
                    o.state.domains[CHOOSE cell \in committed : rank(cell) = k]]
    IN  [heap |-> o.heap,
         sets |-> [id \in 1 .. Len(sets) |-> old(id)] \o fresh,
         obj  |-> [board   |-> o.state.board,
                   domains |-> [cell \in DOMAIN obj.domains |->
                                  IF cell \in committed
                                  THEN Len(sets) + rank(cell)
                                  ELSE obj.domains[cell]]],
         ok   |-> o.ok,
         exc  |-> o.exc]

\* The Boards of the original and of the clone as the only objects of the
\* heap (1: the original's, 2: the clone's).
OwnBoards(h, orig, clone) ==
    [heap  |-> IF clone = <<>> THEN <<h[orig.board]>>
               ELSE <<h[orig.board], h[clone.board]>>,
     orig  |-> [orig EXCEPT !.board = 1],
     clone |-> IF clone = <<>> THEN <<>> ELSE [clone EXCEPT !.board = 2]]

InitClone ==
    \E g \in StatePuzzles :
        \E o \in { State_init(Board_init(<<>>, g, N).heap, 1) } :
        \E al \in { Alloc(<<>>, o.state) } :
        \E ob \in { OwnBoards(o.heap, al.obj, <<>>) } :
            /\ o.exc = "none"
            /\ puzzle = g
            /\ heap = ob.heap
            /\ dstate = [orig |-> ob.orig, clone |-> <<>>, sets |-> al.sets,
                         ok |-> TRUE, exc |-> "none"]
            /\ last = <<>>
            /\ ncalls = 0
            /\ b = 0
            /\ b2 = 0
            /\ ctor = <<>>
            /\ ret = <<>>
            /\ matrix = <<>>

\* state.assign(r, c, value) on the original, before it is cloned.
AssignOriginal ==
    /\ dstate.clone = <<>>
    /\ dstate.ok /\ dstate.exc = "none"
    /\ ncalls < MaxAssigns
    /\ \E cell \in AssignCells, v \in AssignVals :
        \E a \in { State_assign(heap, Deref(dstate.sets, dstate.orig),
                                 cell[1], cell[2], v) } :
        \E o \in { assign_write_back(heap, dstate.sets, dstate.orig,
                                      cell[1], cell[2], a) } :
        \E ob \in { OwnBoards(o.heap, o.obj, <<>>) } :
            /\ heap' = ob.heap
            /\ dstate' = [orig |-> ob.orig, clone |-> <<>>, sets |-> o.sets,
                          ok |-> o.ok, exc |-> o.exc]
    /\ ncalls' = ncalls + 1
    /\ UNCHANGED <<b, b2, ctor, last, puzzle, ret, matrix>>

\* clone = state.clone()
CloneState ==
    /\ dstate.clone = <<>>
    /\ dstate.ok /\ dstate.exc = "none"
    /\ \E o \in { State_clone_objects(heap, dstate.sets, dstate.orig) } :
       \E ob \in { OwnBoards(o.heap, dstate.orig, o.obj) } :
           /\ o.exc = "none"
           /\ heap' = ob.heap
           /\ dstate' = [dstate EXCEPT !.orig = ob.orig, !.clone = ob.clone,
                                       !.sets = o.sets]
    /\ UNCHANGED <<b, b2, ctor, last, ncalls, puzzle, ret, matrix>>

\* clone.assign(r, c, value), whatever the earlier calls on the clone
\* returned.
AssignClone ==
    /\ dstate.clone # <<>>
    /\ ncalls < MaxAssigns
    /\ \E cell \in AssignCells, v \in AssignVals :
        \E a \in { State_assign(heap, Deref(dstate.sets, dstate.clone),
                                 cell[1], cell[2], v) } :
        \E o \in { assign_write_back(heap, dstate.sets, dstate.clone,
                                      cell[1], cell[2], a) } :
        \E ob \in { OwnBoards(o.heap, dstate.orig, o.obj) } :
            /\ heap' = ob.heap
            /\ dstate' = [orig |-> ob.orig, clone |-> ob.clone, sets |-> o.sets,
                          ok |-> o.ok, exc |-> o.exc]
    /\ ncalls' = ncalls + 1
    /\ UNCHANGED <<b, b2, ctor, last, puzzle, ret, matrix>>

NextClone ==
    \/ AssignOriginal
    \/ CloneState
    \/ AssignClone

SpecClone == InitClone /\ [][NextClone]_vars

\* C23: an assign on the clone, whatever it returns, leaves the board and
\* every candidate set of the original State as they were, and the clone
\* starts with the board contents and candidate sets of the original.
C23_CloneIsIndependent ==
    [][ /\ (dstate.clone # <<>> /\ dstate'.clone # <<>>) =>
              /\ Deref(dstate'.sets, dstate'.orig).domains
                     = Deref(dstate.sets, dstate.orig).domains
              /\ heap'[dstate'.orig.board] = heap[dstate.orig.board]
        /\ (dstate.clone = <<>> /\ dstate'.clone # <<>>) =>
              /\ Deref(dstate'.sets, dstate'.clone).domains
                     = Deref(dstate.sets, dstate.orig).domains
              /\ heap'[dstate'.clone.board].grid = heap[dstate.orig.board].grid
              /\ Deref(dstate'.sets, dstate'.orig).domains
                     = Deref(dstate.sets, dstate.orig).domains
              /\ heap'[dstate'.orig.board] = heap[dstate.orig.board]
      ]_vars

\* C23 witness: an assign on the clone failed after it had removed
\* candidates (the clone is left partially propagated), and the clone's
\* board and candidate sets differ from the original's.
C23_Witness ==
    /\ dstate.clone # <<>>
    /\ ~dstate.ok /\ dstate.exc = "none"
    /\ \E cell \in DOMAIN dstate.orig.domains :
          Deref(dstate.sets, dstate.clone).domains[cell] = {}
    /\ heap[dstate.clone.board].grid # heap[dstate.orig.board].grid
    /\ \E cell \in DOMAIN dstate.orig.domains :
          /\ Deref(dstate.sets, dstate.clone).domains[cell] # {}
          /\ Deref(dstate.sets, dstate.clone).domains[cell]
                # Deref(dstate.sets, dstate.orig).domains[cell]

(***************************************************************************)
(* SpecHeur: a client builds a Board from a grid and calls one of the      *)
(* heuristics on it: select_cell_mrv, or order_candidates_lcv for an empty *)
(* cell and a set of candidates.                                           *)
(***************************************************************************)

InitHeur ==
    \E g \in Puzzles :
        /\ heap = Board_init(<<>>, g, N).heap
        /\ puzzle = g
        /\ last = <<>>
        /\ b = 0
        /\ b2 = 0
        /\ ctor = <<>>
        /\ ncalls = 0
        /\ dstate = <<>>
        /\ matrix = <<>>
        /\ ret = <<>>

\* select_cell_mrv(board, rules)
CallSelectMrv ==
    /\ last = <<>>
    /\ \E res \in { select_cell_mrv(heap, 1) } :
        last' = [op |-> "select_cell_mrv", r |-> 0, c |-> 0, candidates |-> {},
                 res |-> res]
    /\ UNCHANGED <<heap, b, b2, ctor, ncalls, puzzle, ret, dstate, matrix>>

\* order_candidates_lcv(board, r, c, candidates, rules) for an empty cell,
\* with every digit or with get_candidates(board, r, c, rules) as candidates.
CallOrderLcv ==
    /\ last = <<>>
    /\ \E r \in 0 .. (Size - 1), c \in 0 .. (Size - 1) :
       \E cands \in { 1 .. Size, get_candidates(heap, 1, r, c) } :
         /\ puzzle[r + 1][c + 1] = EMPTY
         /\ \E res \in { order_candidates_lcv(heap, 1, r, c, cands) } :
            last' = [op |-> "order_candidates_lcv", r |-> r, c |-> c,
                     candidates |-> cands, res |-> res]
    /\ UNCHANGED <<heap, b, b2, ctor, ncalls, puzzle, ret, dstate, matrix>>

NextHeur ==
    \/ CallSelectMrv
    \/ CallOrderLcv

SpecHeur == InitHeur /\ [][NextHeur]_vars

(***************************************************************************)
(* Claims about the heuristics                                             *)
(***************************************************************************)

\* The empty cells of the puzzle (0-based).
EmptyCells ==
    { cell \in (0 .. (Size - 1)) \X (0 .. (Size - 1)) :
        puzzle[cell[1] + 1][cell[2] + 1] = EMPTY }

\* The number of digits no cell other than (r, c) of the row, the column or
\* the block of (r, c) holds.
LegalCount(cell) ==
    Cardinality({ v \in 1 .. Size :
        \A p \in OtherPeers(cell[1] + 1, cell[2] + 1) : puzzle[p[1]][p[2]] # v })

\* Cell x comes before cell y in row-major order.
RowMajorBefore(x, y) == x[1] < y[1] \/ (x[1] = y[1] /\ x[2] <= y[2])

\* C24: select_cell_mrv returns None exactly when the board has no empty
\* cell; otherwise it returns the empty cell with the fewest legal candidates
\* over all empty cells, the first in row-major order among those; so when
\* some empty cell has no candidate, a cell with no candidate is returned.
C24_MrvReturnsFewest ==
    (last # <<>> /\ last.op = "select_cell_mrv") =>
        /\ (last.res = <<>>) <=> (EmptyCells = {})
        /\ last.res # <<>> =>
              /\ last.res \in EmptyCells
              /\ \A cell \in EmptyCells :
                    \/ LegalCount(last.res) < LegalCount(cell)
                    \/ /\ LegalCount(last.res) = LegalCount(cell)
                       /\ RowMajorBefore(last.res, cell)
        /\ (\E cell \in EmptyCells : LegalCount(cell) = 0) =>
              (last.res # <<>> /\ LegalCount(last.res) = 0)

\* What select_cell_mrv does return: None exactly when no cell is empty,
\* otherwise an empty cell that has at most one candidate or is the first of
\* those with the fewest.
C24_MrvReturnsAnEmptyCell ==
    (last # <<>> /\ last.op = "select_cell_mrv") =>
        /\ (last.res = <<>>) <=> (EmptyCells = {})
        /\ last.res # <<>> =>
              /\ last.res \in EmptyCells
              /\ \/ LegalCount(last.res) <= 1
                 \/ \A cell \in EmptyCells :
                       \/ LegalCount(last.res) < LegalCount(cell)
                       \/ /\ LegalCount(last.res) = LegalCount(cell)
                          /\ RowMajorBefore(last.res, cell)

\* The number of empty cells among the peers of (r, c) at which value v
\* breaks no rule in grid g.
AcceptingPeers(g, r, c, v) ==
    Cardinality({ p \in OtherPeers(r + 1, c + 1) :
        /\ g[p[1]][p[2]] = EMPTY
        /\ \A q \in OtherPeers(p[1], p[2]) : g[q[1]][q[2]] # v })

\* res lists the values of cands once each, ascending by (count(v), v).
SortedBy(res, cands, count(_)) ==
    /\ Len(res) = Cardinality(cands)
    /\ { res[i] : i \in 1 .. Len(res) } = cands
    /\ \A i \in 1 .. Len(res) : \A j \in 1 .. Len(res) :
          i < j => \/ count(res[i]) < count(res[j])
                   \/ (count(res[i]) = count(res[j]) /\ res[i] < res[j])

\* C25: order_candidates_lcv returns a permutation of the candidates, sorted
\* ascending by the number of empty peers of (r, c) that still accept the
\* value once it is placed at (r, c), the smaller value first on ties.
C25_LcvSortsByCountAfterPlacing ==
    (last # <<>> /\ last.op = "order_candidates_lcv") =>
        LET after(v) == AcceptingPeers(
                            [puzzle EXCEPT ![last.r + 1][last.c + 1] = v],
                            last.r, last.c, v)
        IN  SortedBy(last.res, last.candidates, after)

\* What order_candidates_lcv does return: a permutation of the candidates,
\* sorted ascending by the number of empty peers of (r, c) that accept the
\* value on the board as it is, the smaller value first on ties.
C25_LcvSortsByCountBeforePlacing ==
    (last # <<>> /\ last.op = "order_candidates_lcv") =>
        LET before(v) == AcceptingPeers(puzzle, last.r, last.c, v)
        IN  SortedBy(last.res, last.candidates, before)

(***************************************************************************)
(* Claims about the search: node counts, events, metrics                   *)
(***************************************************************************)

Finished(evs) == { k \in 1 .. Len(evs) : evs[k].step_type = "finished" }

\* C17: in the event sequence of solve_generator of the plain and of the
\* heuristic solver, a "finished" event occurs at most once, is the last
\* event, carries a board with no empty cell that satisfies is_solved, and is
\* absent when the search fails (the puzzle has no solution).
C17_FinishedLastAndSolved ==
    \A s \in GeneratorCalls :
        (ret[s].status = "done" /\ ret[s].exc = "none") =>
            LET evs == ret[s].events IN
            /\ Cardinality(Finished(evs)) <= 1
            /\ \A k \in Finished(evs) :
                  /\ k = Len(evs)
                  /\ \A i, j \in 1 .. Size : evs[k].board.grid[i][j] # EMPTY
                  /\ is_solved(<<evs[k].board>>, 1)
            /\ (Solutions(puzzle) = {}) => (Finished(evs) = {})

\* The depth of the node a solve call returned its Board from: the plain and
\* the heuristic search fill one empty cell per level.
SolutionDepth(s) == IF ret[s].res = "Board" THEN Holes(puzzle) ELSE 0

\* C18: after solve of the plain, heuristic or forward-checking solver,
\* metrics() reports the nodes visited, the placements tried and abandoned and
\* the deepest level of that call.  Every node but the root is entered by one
\* placement and all placements but those on the path to the returned Board are
\* abandoned; a successful plain or heuristic search ends at the depth equal
\* to the number of empty cells.  The forward-checking search commits several
\* cells per level and abandons placements without entering a node, so for it
\* only the bounds that follow from the node count are stated.
C18_MetricsDescribeSearch ==
    /\ \A s \in {"bt", "heur"} :
          (ret[s].status = "done" /\ ret[s].exc = "none") =>
              /\ ret[s].metrics.explored_nodes >= 1 + SolutionDepth(s)
              /\ ret[s].metrics.backtracks =
                    ret[s].metrics.explored_nodes - 1 - SolutionDepth(s)
              /\ ret[s].res = "Board" =>
                    ret[s].metrics.max_depth = SolutionDepth(s)
              /\ ret[s].metrics.max_depth <= ret[s].metrics.explored_nodes - 1
    /\ (ret["fc"].status = "done" /\ ret["fc"].exc = "none") =>
          /\ ret["fc"].metrics.explored_nodes >= 1
          /\ ret["fc"].metrics.max_depth <= ret["fc"].metrics.explored_nodes - 1
          /\ ret["fc"].metrics.backtracks >=
                ret["fc"].metrics.explored_nodes - 1 - ret["fc"].metrics.max_depth

\* C19: BacktrackingSolver.solve_generator emits a "finished" event exactly
\* when BacktrackingSolver.solve returns a Board on the same input, and then
\* the event's board has the cells of the returned Board.
C19_GeneratorAgreesWithSolve ==
    (ret["bt"].status = "done" /\ ret["bt_gen"].status = "done") =>
        LET evs == ret["bt_gen"].events IN
        /\ (Finished(evs) # {}) <=> (ret["bt"].res = "Board")
        /\ \A k \in Finished(evs) :
              ret["bt"].res = "Board" =>
                  evs[k].board.grid = ret["bt"].board.grid

RECURSIVE StackDiscipline(_, _, _, _)

\* The events evs[k..] replayed against the stack of assignments not yet
\* retracted (each entry: the assign event and the grid it was made from) and
\* the grid cur of the node the search is at.
StackDiscipline(evs, k, stack, cur) ==
    IF k > Len(evs) THEN TRUE
    ELSE LET e == evs[k] IN
         CASE e.step_type = "assign" ->
                  /\ e.board.grid =
                        [cur EXCEPT ![e.cell[1] + 1][e.cell[2] + 1] = e.value]
                  /\ cur[e.cell[1] + 1][e.cell[2] + 1] = EMPTY
                  /\ StackDiscipline(evs, k + 1,
                                     Append(stack, [ev |-> e, before |-> cur]),
                                     e.board.grid)
           [] e.step_type = "backtrack" ->
                  /\ stack # <<>>
                  /\ LET top == stack[Len(stack)] IN
                     /\ e.cell = top.ev.cell
                     /\ e.depth = top.ev.depth
                     /\ e.board.grid = top.before
                     /\ StackDiscipline(evs, k + 1,
                                        SubSeq(stack, 1, Len(stack) - 1),
                                        top.before)
           [] OTHER -> StackDiscipline(evs, k + 1, stack, cur)

\* C20: in the event sequences of solve_generator (plain and heuristic) every
\* backtrack event retracts the most recent assign event not yet retracted,
\* with the same cell and depth and the board from before that assignment, and
\* every assign event's board is the board of its node with only the named
\* cell set to the named value.
C20_EventsFollowStack ==
    \A s \in GeneratorCalls :
        (ret[s].status = "done" /\ ret[s].exc = "none") =>
            StackDiscipline(ret[s].events, 1, <<>>, puzzle)

\* The same for the plain solver alone.
C20_PlainEventsFollowStack ==
    (ret["bt_gen"].status = "done" /\ ret["bt_gen"].exc = "none") =>
        StackDiscipline(ret["bt_gen"].events, 1, <<>>, puzzle)

\* Grid x is not after grid y in the lexicographic order of the values
\* read in row-major order: they are equal, or at the first cell where they
\* differ x holds the smaller value.
LexLeq(x, y) ==
    \/ x = y
    \/ \E k \in 1 .. (Size * Size) :
          LET i == ((k - 1) \div Size) + 1
              j == ((k - 1) % Size) + 1
          IN  /\ x[i][j] < y[i][j]
              /\ \A m \in 1 .. (k - 1) :
                    x[((m - 1) \div Size) + 1][((m - 1) % Size) + 1]
                      = y[((m - 1) \div Size) + 1][((m - 1) % Size) + 1]

\* C26: on a puzzle with at least one solution (its givens are then
\* rule-consistent) BacktrackingSolver.solve returns the lexicographically
\* smallest solution, comparing the values of the empty cells in row-major
\* order (the solutions agree on the other cells); the generator of the same
\* search assigns at the first empty cell of the board it extends, and the
\* values it tries at one node are tried in ascending order.
C26_PlainReturnsSmallestSolution ==
    /\ (Solutions(puzzle) # {} /\ ret["bt"].status = "done") =>
          /\ ret["bt"].exc = "none"
          /\ ret["bt"].res = "Board"
          /\ ret["bt"].board.grid \in Solutions(puzzle)
          /\ \A s \in Solutions(puzzle) : LexLeq(ret["bt"].board.grid, s)
    /\ (Solutions(puzzle) # {} /\ ret["bt_gen"].status = "done") =>
          \A k \in 1 .. Len(ret["bt_gen"].events) :
              LET e == ret["bt_gen"].events[k] IN
              e.step_type = "assign" =>
                  /\ \A i \in 1 .. Size : \A j \in 1 .. Size :
                        (i - 1 < e.cell[1] \/ (i - 1 = e.cell[1] /\ j - 1 < e.cell[2]))
                            => e.board.grid[i][j] # EMPTY
                  /\ \A n \in (k + 1) .. Len(ret["bt_gen"].events) :
                        LET f == ret["bt_gen"].events[n] IN
                        (/\ f.step_type = "assign"
                         /\ f.depth = e.depth
                         /\ \A m \in k .. n :
                               ret["bt_gen"].events[m].depth >= e.depth)
                            => (f.cell = e.cell /\ e.value < f.value)

\* C26 witness: plain backtracking has returned from a puzzle with several
\* solutions, and its result is not the only one.
C26_Witness ==
    /\ ret["bt"].status = "done" /\ ret["bt_gen"].status = "done"
    /\ Cardinality(Solutions(puzzle)) >= 3
    /\ ret["bt"].res = "Board"
    /\ \E s \in Solutions(puzzle) :
          s # ret["bt"].board.grid /\ LexLeq(ret["bt"].board.grid, s)

(***************************************************************************)
(* SpecDlx: DlxSolver.solve builds the matrix of a puzzle and runs the     *)
(* search generator of dlx_lib up to its first solution or to exhaustion.  *)
(* The generator is followed call by call: `matrix' holds the links (m),   *)
(* the solution list, and the generator's position: the statement it is at *)
(* (pc) and the loop variables r and j of the innermost search frame (the  *)
(* r of an outer frame is the entry of solution it appended, its c is r's  *)
(* column).  Two records of what happened are kept beside them: `covered', *)
(* the columns covered and not yet uncovered, the latest last (every cover *)
(* appends its column, every uncover drops the last entry), and `yielded', *)
(* the copies of the solution list the generator has yielded.              *)
(***************************************************************************)

\* Two puzzles on which the search takes rows back: the first has a solution,
\* the second has none although no clue contradicts another.
RetractGrids ==
    { << <<1,0,0,2>>, <<0,2,0,0>>, <<0,1,0,3>>, <<0,0,0,0>> >>,
      << <<0,0,3,1>>, <<0,0,0,0>>, <<0,2,0,4>>, <<1,0,0,0>> >> }

\* The puzzles whose matrix is built: BaseGrid with any subset of the first
\* MaxStateHoles cells of HoleOrder cleared, the grid with no givens, the
\* sparse puzzles and the two above.
DlxPuzzles ==
    { Punch(holes) : holes \in SUBSET StateHoleCells }
    \cup { ZeroGrid } \cup SparseGrids \cup RetractGrids

InitDlx ==
    \E g \in DlxPuzzles :
        LET h == Board_init(<<>>, g, N).heap IN
        /\ heap = h
        /\ puzzle = g
        /\ matrix = [m        |-> build_matrix(build_rows_map(h, 1), Size, N),
                     solution |-> <<>>,
                     pc       |-> "search",
                     r        |-> 0,
                     j        |-> 0,
                     covered  |-> <<>>,
                     yielded  |-> <<>>]
        /\ last = <<>>
        /\ ncalls = 0
        /\ b = 0
        /\ b2 = 0
        /\ ctor = <<>>
        /\ ret = <<>>
        /\ dstate = <<>>

\* search entered: a solution is yielded if no column is left, otherwise the
\* column c is chosen and covered and r starts at c.down.
DlxSearch ==
    /\ matrix.pc = "search"
    /\ LET m == matrix.m
           c == choose_column(m)
       IN  IF m.right[1] = 1
           THEN matrix' = [matrix EXCEPT !.pc = "yielded",
                                         !.yielded = Append(@, matrix.solution)]
           ELSE IF c = 0
           THEN matrix' = [matrix EXCEPT
                             !.pc = IF matrix.solution = <<>>
                                    THEN "exhausted" ELSE "backtrack"]
           ELSE matrix' = [matrix EXCEPT !.m = cover(m, c),
                                         !.r = cover(m, c).down[c],
                                         !.covered = Append(@, c),
                                         !.pc = "row"]
    /\ UNCHANGED <<heap, b, b2, ctor, last, ncalls, puzzle, ret, dstate>>

\* The test of `while r is not c': at the end of the loop c is uncovered and
\* the frame returns; otherwise r is appended to the solution and j starts at
\* r.right.
DlxRow ==
    /\ matrix.pc = "row"
    /\ LET m == matrix.m
           r == matrix.r
           c == m.column[r]
       IN  IF r = c
           THEN matrix' = [matrix EXCEPT
                             !.m = uncover(m, c),
                             !.covered = SubSeq(@, 1, Len(@) - 1),
                             !.pc = IF matrix.solution = <<>>
                                    THEN "exhausted" ELSE "backtrack"]
           ELSE matrix' = [matrix EXCEPT
                             !.solution = Append(@, r),
                             !.j = m.right[r],
                             !.pc = "cover"]
    /\ UNCHANGED <<heap, b, b2, ctor, last, ncalls, puzzle, ret, dstate>>

\* One turn of the loop that covers the columns of the other nodes of row r;
\* at its end search is entered recursively.
DlxCover ==
    /\ matrix.pc = "cover"
    /\ LET m == matrix.m
           j == matrix.j
       IN  IF j = matrix.r
           THEN matrix' = [matrix EXCEPT !.pc = "search"]
           ELSE matrix' = [matrix EXCEPT !.m = cover(m, m.column[j]),
                                         !.covered = Append(@, m.column[j]),
                                         !.j = m.right[j]]
    /\ UNCHANGED <<heap, b, b2, ctor, last, ncalls, puzzle, ret, dstate>>

\* The recursive search returned without a solution: the calling frame pops
\* its r from the solution and j starts at r.left.
DlxBacktrack ==
    /\ matrix.pc = "backtrack"
    /\ LET r == matrix.solution[Len(matrix.solution)] IN
       matrix' = [matrix EXCEPT
                    !.solution = SubSeq(@, 1, Len(@) - 1),
                    !.r = r,
                    !.j = matrix.m.left[r],
                    !.pc = "uncover"]
    /\ UNCHANGED <<heap, b, b2, ctor, last, ncalls, puzzle, ret, dstate>>

\* One turn of the loop that uncovers the columns of the other nodes of row r;
\* at its end r moves to r.down.
DlxUncover ==
    /\ matrix.pc = "uncover"
    /\ LET m == matrix.m
           j == matrix.j
       IN  IF j = matrix.r
           THEN matrix' = [matrix EXCEPT !.r = m.down[matrix.r], !.pc = "row"]
           ELSE matrix' = [matrix EXCEPT !.m = uncover(m, m.column[j]),
                                         !.covered = SubSeq(@, 1, Len(@) - 1),
                                         !.j = m.left[j]]
    /\ UNCHANGED <<heap, b, b2, ctor, last, ncalls, puzzle, ret, dstate>>

NextDlx ==
    \/ DlxSearch
    \/ DlxRow
    \/ DlxCover
    \/ DlxBacktrack
    \/ DlxUncover

SpecDlx == InitDlx /\ [][NextDlx]_vars

(***************************************************************************)
(* SpecDlxAll: the search generator driven to exhaustion: after each yield *)
(* the consumer asks for the next solution.                                *)
(***************************************************************************)

\* The puzzles whose generator is exhausted: BaseGrid with any subset of the
\* first MaxStateHoles cells of HoleOrder cleared, the sparse puzzles and the
\* two on which the search takes rows back before its first solution.
ExhaustPuzzles ==
    { Punch(holes) : holes \in SUBSET StateHoleCells }
    \cup SparseGrids \cup RetractGrids

InitDlxAll ==
    /\ InitDlx
    /\ puzzle \in ExhaustPuzzles

\* The generator is resumed after a yield: the frame that yielded returns
\* (`yield list(solution)' is followed by `return'), to the frame that called
\* it or, from the outermost frame, to the consumer.
DlxResume ==
    /\ matrix.pc = "yielded"
    /\ matrix' = [matrix EXCEPT
                    !.pc = IF matrix.solution = <<>>
                           THEN "exhausted" ELSE "backtrack"]
    /\ UNCHANGED <<heap, b, b2, ctor, last, ncalls, puzzle, ret, dstate>>

NextDlxAll ==
    \/ DlxSearch
    \/ DlxRow
    \/ DlxCover
    \/ DlxBacktrack
    \/ DlxUncover
    \/ DlxResume

SpecDlxAll == InitDlxAll /\ [][NextDlxAll]_vars

(***************************************************************************)
(* Claims about the exact-cover matrix                                     *)
(***************************************************************************)

RECURSIVE ring_from(_, _)

\* The column headers met going right from header c until the root.
ring_from(m, c) == IF c = 1 THEN {} ELSE {c} \cup ring_from(m, m.right[c])

\* The columns currently linked in the header ring of m.
LinkedColumns(m) == ring_from(m, m.right[1])

\* C16: in every matrix state reached during a DLX solve and for every column
\* linked in the header ring, cover(column) followed immediately by
\* uncover(column) gives back the same left, right, up and down links of all
\* nodes and headers and the same column sizes.
C16_CoverUncoverRoundTrip ==
    \A col \in LinkedColumns(matrix.m) :
        uncover(cover(matrix.m, col), col) = matrix.m

\* C16 witness: the search is backtracking below a chosen row, some columns
\* are covered, and a linked column still has rows to unlink.
C16_Witness ==
    /\ matrix.pc = "uncover"
    /\ Len(matrix.solution) >= 1
    /\ \E col \in LinkedColumns(matrix.m) :
          /\ matrix.m.size[col] >= 2
          /\ cover(matrix.m, col) # matrix.m

\* The number of nodes met from node n by following down links until the
\* header c is reached.
RECURSIVE down_nodes(_, _, _)
down_nodes(m, c, n) ==
    IF n = c THEN 0 ELSE 1 + down_nodes(m, c, m.down[n])

\* C27: after the matrix is built and after every cover and uncover of the
\* search, the size of every column still linked in the header ring is the
\* number of nodes reachable from its header by down links.
C27_SizeCountsColumnNodes ==
    \A col \in LinkedColumns(matrix.m) :
        matrix.m.size[col] = down_nodes(matrix.m, col, matrix.m.down[col])

\* C27 witness: the search has selected two rows and is undoing a cover,
\* and a column still linked has lost some but not all of its nodes.
C27_Witness ==
    /\ matrix.pc = "uncover"
    /\ Len(matrix.solution) >= 2
    /\ \E col \in LinkedColumns(matrix.m) :
          /\ matrix.m.size[col] >= 1
          /\ matrix.m.size[col] < Cardinality({ n \in DOMAIN matrix.m.column :
                                                  matrix.m.column[n] = col /\ n # col })

\* The matrix as DlxSolver.solve builds it for the puzzle, before search.
BuiltMatrix == build_matrix(build_rows_map(heap, 1), Size, N)

\* C28: every uncover of the search is applied to the column covered most
\* recently among those not yet uncovered, and when the generator is
\* exhausted no column is left covered and every link and every column size
\* of the matrix is what it was before the search started.
C28_CoverUncoverNested ==
    /\ [](matrix.pc = "exhausted" =>
            (matrix.covered = <<>> /\ matrix.m = BuiltMatrix))
    /\ [][ Len(matrix'.covered) < Len(matrix.covered) =>
              /\ matrix'.covered = SubSeq(matrix.covered, 1, Len(matrix.covered) - 1)
              /\ matrix'.m = uncover(matrix.m, matrix.covered[Len(matrix.covered)])
         ]_vars

\* C28 witness: the generator is exhausted after it yielded a solution of
\* several rows and took rows back.
C28_Witness ==
    /\ matrix.pc = "exhausted"
    /\ Len(matrix.yielded) >= 1
    /\ Len(matrix.yielded[1]) >= 2
    /\ Holes(puzzle) >= 3

\* The constraint columns (the header nodes but the root).
ConstraintColumns == 2 .. (4 * Size * Size + 1)

\* The columns in which the option row with identity i has a node (node.column
\* and node.row_id are never assigned after the matrix is built).
RowColumns(m, i) == { m.column[x] : x \in { y \in DOMAIN m.row_id : m.row_id[y] = i } }

\* The option rows of matrix m, each as the set of its columns (two options
\* never have the same columns).
OptionRows(m) == { RowColumns(m, i) : i \in { m.row_id[x] : x \in DOMAIN m.row_id } \ { 0 - 1 } }

\* The rows of sel have exactly one node in every constraint column.
IsExactCover(sel) ==
    \A col \in ConstraintColumns : Cardinality({ o \in sel : col \in o }) = 1

\* The ways to fill every column of `open' exactly once with rows of opts,
\* all of which lie within `open': for the first column of `open', every row
\* that has a node in it, extended in every way by rows that share no column
\* with it.
RECURSIVE ExactCoversFrom(_, _)
ExactCoversFrom(opts, open) ==
    IF open = {} THEN { {} }
    ELSE LET c == CHOOSE x \in open : \A y \in open : x <= y IN
         UNION { { {o} \cup rest :
                     rest \in ExactCoversFrom({ q \in opts : q \cap o = {} },
                                              open \ o) } :
                 o \in { q \in opts : c \in q } }

\* The exact covers of matrix m.
ExactCovers(m) == ExactCoversFrom(OptionRows(m), ConstraintColumns)

\* The rows of the k-th selection the generator yielded.
YieldedRows(k) ==
    { RowColumns(matrix.m, matrix.m.row_id[matrix.yielded[k][p]]) :
        p \in 1 .. Len(matrix.yielded[k]) }

\* C29: every selection the generator yields has exactly one node in each of
\* the 4 * size * size constraint columns and was not yielded before, and
\* when the generator is exhausted the selections yielded are all the exact
\* covers of the matrix built from the Board.
C29_YieldsExactlyTheExactCovers ==
    /\ matrix.pc = "yielded" =>
          LET k == Len(matrix.yielded) IN
          /\ matrix.yielded[k] = matrix.solution
          /\ Cardinality(YieldedRows(k)) = Len(matrix.yielded[k])
          /\ IsExactCover(YieldedRows(k))
          /\ \A n \in 1 .. (k - 1) : YieldedRows(n) # YieldedRows(k)
    /\ matrix.pc = "exhausted" =>
          { YieldedRows(k) : k \in 1 .. Len(matrix.yielded) }
              = ExactCovers(matrix.m)

\* C29 witness: the generator is exhausted after yielding several
\* selections.
C29_Witness ==
    /\ matrix.pc = "exhausted"
    /\ Len(matrix.yielded) >= 2
    /\ Cardinality(ExactCovers(matrix.m)) >= 2

(***************************************************************************)
(* Claims about termination                                                *)
(***************************************************************************)

\* The depth of the plain (explain mode), heuristic and forward-checking
\* searches, as their metrics and events report it, never exceeds the number
\* of empty cells of the input.
C30_BacktrackingDepthWithinEmptyCells ==
    \A s \in { "heur", "fc", "bt_gen", "heur_gen" } :
        ret[s].status = "done" =>
            /\ ret[s].metrics.max_depth <= Holes(puzzle)
            /\ \A k \in 1 .. Len(ret[s].events) :
                  ret[s].events[k].depth <= Holes(puzzle)

\* C30: the searches terminate because every level of a search path commits
\* one more cell, so that the depth of the search never exceeds the number of
\* empty cells of the input; for the DLX search, whose levels are the rows in
\* the solution list, the list never holds more rows than the input has
\* empty cells.
C30_DepthWithinEmptyCells ==
    Len(matrix.solution) <= Holes(puzzle)


============================================================================
